---- MODULE Spec2Model ----
(***************************************************************************)
(* Model of market_insights: the plugin registry (core/plugin_loader.py)   *)
(* and the execution engine (core/orchestrator.py).                        *)
(*                                                                         *)
(* A unit (analyzer or notifier instance) is an identifier; what a call of *)
(* one of its members returns or raises is chosen when the call is made.   *)
(* A unit's name is the constant under which the registry holds it         *)
(* (plugin_loader.py:81 and :125 register a unit only after reading its    *)
(* name).                                                                  *)
(***************************************************************************)
EXTENDS Integers, Sequences, FiniteSets, TLC

VARIABLES
    config,          \* AppConfig: enabled_analyzers, enabled_notifiers
    fs,              \* the package directory the PluginLoader scans
    analyzer_cache,  \* PluginLoader._analyzer_cache (insertion-ordered dict)
    notifier_cache,  \* PluginLoader._notifier_cache (insertion-ordered dict)
    results,         \* Orchestrator.results
    pc,              \* position inside Orchestrator.run()
    analyzers,       \* run(): local `analyzers`
    notifiers,       \* run(): local `notifiers`
    idx,             \* index of the next element of the running for-loop
    payload,         \* _send_notifications(): local `payload`
    returned,        \* value returned by run()
    escaped,         \* exception that left run()
    calls,           \* members of units invoked by run(), in order
    discoveries,     \* calls of discover_analyzers()/discover_notifiers(), in order
    delivered,       \* the (channel, payload) pairs send() was called with, in order
    main_pc,         \* position inside main()
    main_result,     \* how main() ended: the code it returned or the exception it raised
    env,             \* os.environ: the settings' variables
    yaml_config,     \* config_data: what config/analyzers.yaml gives
    loaded,          \* what AppConfig.from_env() returned or raised
    wrapped,         \* a function decorated with retry(), with the decorator's arguments
    attempt,         \* wrapper(): `attempt`
    current_delay,   \* wrapper(): `current_delay`
    func_calls,      \* the calls of the wrapped function made by one wrapper call
    sleeps,          \* the time.sleep() calls made by one wrapper call
    wrapper_out,     \* what the wrapper call returned or raised
    index_specs,     \* IndexValuationAnalyzer.index_specs
    rows,            \* _fetch_all_data(): `rows`
    iv_pc,           \* position inside IndexValuationAnalyzer.analyze()
    iv_calls,        \* the data-source and renderer calls made by analyze()
    iv_out           \* what analyze() returned or raised

\* the state of one Orchestrator.run() over its PluginLoader
runVars == <<config, fs, analyzer_cache, notifier_cache, results, pc, analyzers,
             notifiers, idx, payload, returned, escaped, calls, discoveries,
             delivered>>

\* the state of main()
mainVars == <<main_pc, main_result>>

\* the state of AppConfig.from_env()
configVars == <<env, yaml_config, loaded>>

\* the state of one call of a retry() wrapper
retryVars == <<wrapped, attempt, current_delay, func_calls, sleeps, wrapper_out>>

\* the state of one call of IndexValuationAnalyzer.analyze()
ivVars == <<index_specs, rows, iv_pc, iv_calls, iv_out>>

vars == <<runVars, mainVars, configVars, retryVars, ivVars>>

None == "None"

(***************************************************************************)
(* Bounds.                                                                 *)
(***************************************************************************)
\* most names the two configured enabled-lists hold together
MaxConfigured == 2

\* most plugin entries (directories or files) of a scanned directory
MaxPlugins == 2

\* most candidate classes the modules of a scanned directory hold together
MaxCandidates == 2

\* most calls of the discovery operations on one PluginLoader
MaxDiscoverCalls == 2

\* most calls of run() on one Orchestrator
MaxRuns == 2

(***************************************************************************)
(* Units.                                                                  *)
(***************************************************************************)
AnalyzerUnits == {"a1", "a2", "a3"}
NotifierUnits == {"n1", "n2", "n3"}

\* the value of the unit's `name` property; a3 reports the name of a1 and n3
\* the name of n1; iv is the IndexValuationAnalyzer
UnitName(u) ==
    CASE u = "a1" -> "x"
      [] u = "a2" -> "y"
      [] u = "a3" -> "x"
      [] u = "n1" -> "console"
      [] u = "n2" -> "telegram"
      [] u = "n3" -> "console"
      [] u = "iv" -> "index_valuation"

\* names a configuration may hold: the units' names and one no unit has
AnalyzerNames == {"x", "y", "zz"}
NotifierNames == {"console", "telegram", "zz"}

\* exceptions a member of a unit may raise
Exceptions == {"e1", "e2"}

\* the OrchestratorError raised at orchestrator.py:138
OrchestratorError == "OrchestratorError"

(***************************************************************************)
(* Python dict with insertion order: a sequence of (key, value) entries.   *)
(***************************************************************************)
DictKeys(d) == {d[k].key : k \in 1..Len(d)}

DictGet(d, key) ==
    IF key \in DictKeys(d)
    THEN LET k == CHOOSE n \in 1..Len(d) : d[n].key = key IN d[k].value
    ELSE None

\* DictSet that leaves the entry of a present key as it is
DictSetFirst(d, key, value) ==
    IF key \in DictKeys(d) THEN d
    ELSE Append(d, [key |-> key, value |-> value])

\* d[key] = value: a new key is appended, a present key keeps its place
DictSet(d, key, value) ==
    IF key \in DictKeys(d)
    THEN [k \in 1..Len(d) |->
            IF d[k].key = key THEN [key |-> key, value |-> value] ELSE d[k]]
    ELSE Append(d, [key |-> key, value |-> value])

\* list(d.values())
DictValues(d) == [k \in 1..Len(d) |-> d[k].value]

(***************************************************************************)
(* The scanned package directory.  analyzers/ holds directory entries,     *)
(* notifiers/ holds *.py files; an entry that imports yields the classes   *)
(* inspect.getmembers lists, in its (sorted) order.                        *)
(*   class: own      obj.__module__ == module_name                         *)
(*          has_name hasattr(obj, "name")                                  *)
(*          has_main hasattr(obj, "analyze") / hasattr(obj, "send")        *)
(*          ctor     obj(): "ok", "TypeError" or "Error" (another exception)*)
(*          conforms isinstance(instance, Analyzer) / (instance, Notifier) *)
(*          unit     the instance obj() gives                              *)
(***************************************************************************)
StartsWith(s, c) == Len(s) > 0 /\ s[1] = c

PluginClass(u) ==
    [own |-> TRUE, has_name |-> TRUE, has_main |-> TRUE, ctor |-> "ok",
     conforms |-> TRUE, unit |-> u]

\* a plugin directory analyzers/<name>/ holding analyzer.py with these classes
PluginDir(name, classes) ==
    [name |-> name, is_dir |-> TRUE, has_file |-> TRUE, import_ok |-> TRUE,
     classes |-> classes]

\* a file notifiers/<stem>.py with these classes
PluginFile(stem, classes) ==
    [name |-> stem \o <<".py">>, import_ok |-> TRUE, classes |-> classes]

\* the classes of one imported module, from the k-th on (plugin_loader.py:70-85
\* and :116-128); an exception other than TypeError leaves the module's loop
RECURSIVE ScanClasses(_, _, _)
ScanClasses(cache, classes, k) ==
    IF k > Len(classes) THEN cache
    ELSE LET c == classes[k] IN
         IF c.own /\ c.has_name /\ c.has_main
         THEN CASE c.ctor = "TypeError" -> ScanClasses(cache, classes, k + 1)
                [] c.ctor = "Error" -> cache
                [] OTHER ->
                    IF c.conforms
                    THEN ScanClasses(DictSet(cache, UnitName(c.unit), c.unit),
                                     classes, k + 1)
                    ELSE ScanClasses(cache, classes, k + 1)
         ELSE ScanClasses(cache, classes, k + 1)

\* for plugin_dir in analyzers_dir.iterdir(): ... (plugin_loader.py:56-88)
RECURSIVE ScanAnalyzerDirs(_, _, _)
ScanAnalyzerDirs(cache, entries, k) ==
    IF k > Len(entries) THEN cache
    ELSE LET d == entries[k] IN
         IF ~d.is_dir \/ StartsWith(d.name, "_") THEN ScanAnalyzerDirs(cache, entries, k + 1)
         ELSE IF ~d.has_file THEN ScanAnalyzerDirs(cache, entries, k + 1)
         ELSE IF ~d.import_ok THEN ScanAnalyzerDirs(cache, entries, k + 1)
         ELSE ScanAnalyzerDirs(ScanClasses(cache, d.classes, 1), entries, k + 1)

\* for notifier_file in notifiers_dir.glob("*.py"): ... (plugin_loader.py:108-131)
RECURSIVE ScanNotifierFiles(_, _, _)
ScanNotifierFiles(cache, entries, k) ==
    IF k > Len(entries) THEN cache
    ELSE LET f == entries[k] IN
         IF StartsWith(f.name, "_") \/ f.name = <<"base", ".py">>
         THEN ScanNotifierFiles(cache, entries, k + 1)
         ELSE IF ~f.import_ok THEN ScanNotifierFiles(cache, entries, k + 1)
         ELSE ScanNotifierFiles(ScanClasses(cache, f.classes, 1), entries, k + 1)

\* what one call of a discovery operation did with the filesystem: whether it
\* listed the directory, and the entries whose module it imported
NoScan == [listed |-> FALSE, imports |-> <<>>]

\* the names of the analyzers/ entries import_module is called for
\* (plugin_loader.py:56-67)
ImportedAnalyzerDirs(entries) ==
    LET hit == SelectSeq(entries, LAMBDA d :
                   d.is_dir /\ ~StartsWith(d.name, "_") /\ d.has_file)
    IN [k \in 1..Len(hit) |-> hit[k].name]

\* the names of the notifiers/ files import_module is called for
\* (plugin_loader.py:108-114)
ImportedNotifierFiles(entries) ==
    LET hit == SelectSeq(entries, LAMBDA f :
                   ~(StartsWith(f.name, "_") \/ f.name = <<"base", ".py">>))
    IN [k \in 1..Len(hit) |-> hit[k].name]

\* PluginLoader.discover_analyzers: the cache afterwards, the mapping returned
\* and the scan made
discover_analyzers(cache, dir) ==
    IF cache # <<>> THEN [cache |-> cache, ret |-> cache, scan |-> NoScan]
    ELSE IF ~dir.exists THEN [cache |-> cache, ret |-> <<>>, scan |-> NoScan]
    ELSE LET c == ScanAnalyzerDirs(cache, dir.entries, 1)
         IN [cache |-> c, ret |-> c,
             scan |-> [listed |-> TRUE, imports |-> ImportedAnalyzerDirs(dir.entries)]]

\* PluginLoader.discover_notifiers: the cache afterwards, the mapping returned
\* and the scan made
discover_notifiers(cache, dir) ==
    IF cache # <<>> THEN [cache |-> cache, ret |-> cache, scan |-> NoScan]
    ELSE IF ~dir.exists THEN [cache |-> cache, ret |-> <<>>, scan |-> NoScan]
    ELSE LET c == ScanNotifierFiles(cache, dir.entries, 1)
         IN [cache |-> c, ret |-> c,
             scan |-> [listed |-> TRUE, imports |-> ImportedNotifierFiles(dir.entries)]]

\* one entry of `discoveries`
Discovery(registry, disc) == [registry |-> registry, ret |-> disc.ret, scan |-> disc.scan]

(***************************************************************************)
(* What a call of a unit's member does: it returns a value or raises.      *)
(***************************************************************************)
Returns(v) == [kind |-> "return", value |-> v, exc |-> None]
Raises(e) == [kind |-> "raise", value |-> None, exc |-> e]

\* enabled, validate_config(), is_available(), send(payload): a bool or an exception
BoolOutcomes == {Returns("True"), Returns("False")} \cup {Raises(e) : e \in Exceptions}

\* the text of an exception, str(exc)
ExcText(exc, name) ==
    IF exc = OrchestratorError
    THEN <<"Configuration validation failed for ", name>>
    ELSE <<exc>>

\* AnalysisResult (protocols.py:14-32)
AnalysisResult(name, success, artifacts, summary, error) ==
    [analyzer_name |-> name, success |-> success, artifacts |-> artifacts,
     summary |-> summary, error |-> error]

NoResult == AnalysisResult(None, FALSE, <<>>, <<>>, None)

\* the AnalysisResult values analyze() of unit u may return: under its own or
\* another name, a success with an artifact or a failure with its cause; a
\* failure may carry the artifact written before the analysis failed
ReturnedResults(u) ==
    { AnalysisResult(n, TRUE, <<<<"output", UnitName(u)>>>>, <<"ok">>, None) :
        n \in {UnitName(u), "ghost"} }
    \cup
    { AnalysisResult(n, FALSE, <<>>, <<>>, "e1") : n \in {UnitName(u), "ghost"} }
    \cup
    { AnalysisResult(UnitName(u), FALSE, <<<<"partial", UnitName(u)>>>>, <<>>, "e1") }

\* analyze(): an AnalysisResult or an exception
AnalyzeOutcomes(u) ==
    {[kind |-> "return", value |-> r, exc |-> None] : r \in ReturnedResults(u)}
    \cup {[kind |-> "raise", value |-> NoResult, exc |-> e] : e \in Exceptions}

NotCalled == [kind |-> "none", value |-> NoResult, exc |-> None]

\* one entry of `calls`
Call(op, unit, out) == [op |-> op, unit |-> unit, out |-> out]

OutText(o) == IF o.kind = "raise" THEN o.exc ELSE o.value

\* the outcomes of n calls made in a row, where a raise ends the row
OutcomeRows(n) ==
    { f \in [1..n -> BoolOutcomes] :
        \A k \in 1..n : f[k].kind = "raise" => \A m \in (k+1)..n : f[m] = Returns("True") }

FirstRaise(f) ==
    IF \E k \in DOMAIN f : f[k].kind = "raise"
    THEN CHOOSE k \in DOMAIN f : f[k].kind = "raise" /\ \A m \in 1..(k-1) : f[m].kind # "raise"
    ELSE 0

(***************************************************************************)
(* Orchestrator (core/orchestrator.py).                                    *)
(***************************************************************************)
\* the elements of seq at the positions where the outcome in row is True, in
\* order
SelectAt(seq, row) ==
    LET ix == SelectSeq([k \in 1..Len(seq) |-> k], LAMBDA k : row[k].value = "True")
    IN [m \in 1..Len(ix) |-> seq[ix[m]]]

\* select_analyzers with a fallback to every discovered unit when no configured
\* name is found
select_analyzers_fallback(all, names) ==
    LET got == [k \in 1..Len(names) |-> DictGet(all, names[k])]
        found == SelectSeq(got, LAMBDA u : u # None)
    IN IF found = <<>> THEN DictValues(all) ELSE found

\* _load_analyzers, lines 87-97: the units the configuration selects
select_analyzers(all, names) ==
    IF names = <<>>
    THEN DictValues(all)
    ELSE LET got == [k \in 1..Len(names) |-> DictGet(all, names[k])]
         IN SelectSeq(got, LAMBDA u : u # None)

\* _load_analyzers, line 100: [a for a in enabled if a.enabled]
filter_enabled(cand, row) ==
    SelectAt(cand, row)

\* _load_notifiers, lines 113-115: the configured names the registry holds
select_notifiers(all, names) ==
    LET got == [k \in 1..Len(names) |-> DictGet(all, names[k])]
    IN SelectSeq(got, LAMBDA u : u # None)

\* _load_notifiers, lines 116-117: if notifier and notifier.is_available()
filter_available(cand, row) ==
    SelectAt(cand, row)

\* failure_result without error=exc
failure_result_no_cause(u, exc) ==
    AnalysisResult(UnitName(u), FALSE, <<>>,
                   <<"Failed with error: ">> \o ExcText(exc, UnitName(u)), None)

\* _execute_analyzer, lines 156-165: the outcome built in the except branch
failure_result(u, exc) ==
    AnalysisResult(UnitName(u), FALSE, <<>>,
                   <<"Failed with error: ">> \o ExcText(exc, UnitName(u)), exc)

\* calls_analyze without the test of validate_config()'s value
calls_analyze_unchecked(v) == v.kind = "return"

\* _execute_analyzer, lines 137-143: analyze() is called only after
\* validate_config() returned true
calls_analyze(v) == v = Returns("True")

\* _execute_analyzer: the outcome for unit u, given what validate_config() (v)
\* and analyze() (a) do
execute_analyzer(u, v, a) ==
    IF v.kind = "raise" THEN failure_result(u, v.exc)
    ELSE IF v.value # "True" THEN failure_result(u, OrchestratorError)
    ELSE IF a.kind = "raise" THEN failure_result(u, a.exc)
    ELSE a.value

\* success_count without the `if r.success` filter
success_count_all(rs) == Len(rs)

\* sum(1 for r in self.results if r.success)
success_count(rs) == Cardinality({k \in 1..Len(rs) : rs[k].success})

\* len(self.results)
total_count(rs) == Len(rs)

Digits == <<"0", "1", "2", "3", "4", "5", "6", "7", "8", "9">>

\* the decimal text of n >= 0, as f"{n}" gives it
RECURSIVE IntToStr(_)
IntToStr(n) ==
    IF n < 10 THEN <<Digits[n + 1]>>
    ELSE IntToStr(n \div 10) \o <<Digits[(n % 10) + 1]>>

\* "\n".join(lines)
RECURSIVE JoinLines(_)
JoinLines(lines) ==
    IF lines = <<>> THEN <<>>
    ELSE IF Len(lines) = 1 THEN lines[1]
    ELSE lines[1] \o <<"\n">> \o JoinLines(Tail(lines))

\* _build_notification_payload, lines 202-206: the lines of one result
ResultLines(r) ==
    LET status == IF r.success THEN "CHECK" ELSE "CROSS"
    IN <<<<status, " ", r.analyzer_name>>>>
       \o (IF r.summary # <<>> THEN <<<<"  ">> \o r.summary>> ELSE <<>>)

RECURSIVE AllResultLines(_)
AllResultLines(rs) ==
    IF rs = <<>> THEN <<>> ELSE ResultLines(Head(rs)) \o AllResultLines(Tail(rs))

\* all_artifacts without the `if result.success` test
RECURSIVE all_artifacts_unfiltered(_)
all_artifacts_unfiltered(rs) ==
    IF rs = <<>> THEN <<>>
    ELSE Head(rs).artifacts \o all_artifacts_unfiltered(Tail(rs))

\* _build_notification_payload, lines 209-212: artifacts of the successful results
RECURSIVE all_artifacts(_)
all_artifacts(rs) ==
    IF rs = <<>> THEN <<>>
    ELSE (IF Head(rs).success THEN Head(rs).artifacts ELSE <<>>)
         \o all_artifacts(Tail(rs))

\* Orchestrator._build_notification_payload
build_notification_payload(rs) ==
    LET lines == << <<"Market Insights Analysis Complete">>,
                    <<>>,
                    <<"Success: ">> \o IntToStr(success_count(rs)) \o <<"/">>
                        \o IntToStr(total_count(rs)) \o <<" analyzers">>,
                    <<>> >>
                 \o AllResultLines(rs)
    IN [title |-> "Market Insights Report",
        message |-> JoinLines(lines),
        attachments |-> all_artifacts(rs),
        metadata |-> [success_count |-> success_count(rs),
                      total_count |-> total_count(rs),
                      results |-> [k \in 1..Len(rs) |->
                                     [name |-> rs[k].analyzer_name,
                                      success |-> rs[k].success,
                                      artifacts |-> rs[k].artifacts]]]]

NoPayload == [title |-> None, message |-> <<>>, attachments |-> <<>>,
              metadata |-> [success_count |-> 0, total_count |-> 0, results |-> <<>>]]

\* run_result as "every outcome succeeded"
run_result_all(rs) == success_count(rs) = total_count(rs)

\* run(), line 77: return success_count > 0
run_result(rs) == success_count(rs) > 0

\* after_send without the except branch: an exception of send() leaves run()
after_send_uncaught(out, j, n) ==
    IF out.kind = "raise" THEN [pc |-> "raised", idx |-> j, escaped |-> out.exc]
    ELSE IF j < n THEN [pc |-> "send", idx |-> j + 1, escaped |-> None]
    ELSE [pc |-> "summary", idx |-> 0, escaped |-> None]

\* after_send that calls send() on the same channel again when it failed
after_send_retry(out, j, n) ==
    IF out # Returns("True") THEN [pc |-> "send", idx |-> j, escaped |-> None]
    ELSE IF j < n THEN [pc |-> "send", idx |-> j + 1, escaped |-> None]
    ELSE [pc |-> "summary", idx |-> 0, escaped |-> None]

\* _send_notifications, lines 175-183: after send() on the j-th of n channels
\* returned or raised (out), the loop goes on to the next channel
after_send(out, j, n) ==
    IF j < n THEN [pc |-> "send", idx |-> j + 1, escaped |-> None]
    ELSE [pc |-> "summary", idx |-> 0, escaped |-> None]

\* after_execute that leaves the loop after any analyzer
after_execute_early(j, n) == [pc |-> "notify", idx |-> 0]

\* run(), lines 61-63: after the j-th of n analyzers was executed
after_execute(j, n) ==
    IF j < n THEN [pc |-> "execute", idx |-> j + 1]
    ELSE [pc |-> "notify", idx |-> 0]

(***************************************************************************)
(* Initial states: an Orchestrator just constructed (orchestrator.py:39-41)*)
(* over a PluginLoader just constructed (plugin_loader.py:35-37), for a    *)
(* configuration and a package directory, with run() about to start.       *)
(***************************************************************************)
\* sequences over S of length at most n
BSeq(S, n) == UNION {[1..m -> S] : m \in 0..n}

NotADir(name) ==
    [name |-> name, is_dir |-> FALSE, has_file |-> FALSE, import_ok |-> FALSE,
     classes |-> <<>>]

\* analyzers/: __init__.py, base.py, __pycache__/ and the plugin directories
AnalyzerDirOf(plugins) ==
    [exists |-> TRUE,
     entries |-> << NotADir(<<"_", "_init__.py">>), NotADir(<<"base.py">>),
                    PluginDir(<<"_", "_pycache__">>, <<>>) >> \o plugins]

\* notifiers/: __init__.py, base.py and the plugin files
NotifierDirOf(plugins) ==
    [exists |-> TRUE,
     entries |-> << PluginFile(<<"_", "_init__">>, <<>>),
                    PluginFile(<<"base">>, <<>>) >> \o plugins]

NoDirectory == [exists |-> FALSE, entries |-> <<>>]

AnalyzerDirs ==
    { NoDirectory,
      AnalyzerDirOf(<< PluginDir(<<"x">>, <<PluginClass("a1")>>) >>),
      AnalyzerDirOf(<< PluginDir(<<"x">>, <<PluginClass("a1")>>),
                       PluginDir(<<"y">>, <<PluginClass("a2")>>) >>) }

NotifierDirs ==
    { NoDirectory,
      NotifierDirOf(<< PluginFile(<<"console">>, <<PluginClass("n1")>>),
                       PluginFile(<<"telegram">>, <<PluginClass("n2")>>) >>) }

\* main() is not in progress
NoExit == [kind |-> "none", code |-> 0, exc |-> None]

MainIdle ==
    /\ main_pc = "idle"
    /\ main_result = NoExit

\* AppConfig.from_env() is not in progress
ConfigIdle ==
    /\ env = None
    /\ yaml_config = None
    /\ loaded = None

\* no retry() wrapper is in progress
RetryIdle ==
    /\ wrapped = None
    /\ attempt = 0
    /\ current_delay = 0
    /\ func_calls = <<>>
    /\ sleeps = <<>>
    /\ wrapper_out = [kind |-> "none", value |-> None, exc |-> None]

\* IndexValuationAnalyzer.analyze() is not in progress
IvIdle ==
    /\ index_specs = <<>>
    /\ rows = <<>>
    /\ iv_pc = "idle"
    /\ iv_calls = <<>>
    /\ iv_out = [kind |-> "none", value |-> NoResult, exc |-> None]

\* the configurations a run is made with
Configs ==
    { c \in [enabled_analyzers : BSeq(AnalyzerNames, MaxConfigured),
             enabled_notifiers : BSeq(NotifierNames, MaxConfigured)] :
        Len(c.enabled_analyzers) + Len(c.enabled_notifiers) <= MaxConfigured }

Init ==
    /\ config \in Configs
    /\ fs \in [analyzers : AnalyzerDirs, notifiers : NotifierDirs]
    /\ analyzer_cache = <<>>
    /\ notifier_cache = <<>>
    /\ results = <<>>
    /\ pc = "load_analyzers"
    /\ analyzers = <<>>
    /\ notifiers = <<>>
    /\ idx = 0
    /\ payload = NoPayload
    /\ returned = None
    /\ escaped = None
    /\ calls = <<>>
    /\ discoveries = <<>>
    /\ delivered = <<>>
    /\ MainIdle /\ ConfigIdle /\ RetryIdle /\ IvIdle

(***************************************************************************)
(* run(), one action per step.                                             *)
(***************************************************************************)
\* the calls of `op` on the units of cand up to the first raise
RowCalls(op, cand, row) ==
    LET r == FirstRaise(row)
        n == IF r = 0 THEN Len(cand) ELSE r
    IN [k \in 1..n |-> Call(op, cand[k], OutText(row[k]))]

\* run(), line 52: analyzers = self._load_analyzers()
load_analyzers ==
    /\ pc = "load_analyzers"
    /\ LET disc == discover_analyzers(analyzer_cache, fs.analyzers)
           cand == select_analyzers(disc.ret, config.enabled_analyzers)
       IN /\ analyzer_cache' = disc.cache
          /\ discoveries' = Append(discoveries, Discovery("analyzers", disc))
          /\ \E row \in OutcomeRows(Len(cand)) :
               /\ calls' = calls \o RowCalls("enabled", cand, row)
               /\ IF FirstRaise(row) = 0
                  THEN /\ analyzers' = filter_enabled(cand, row)
                       /\ pc' = "load_notifiers"
                       /\ escaped' = escaped
                  ELSE /\ analyzers' = analyzers
                       /\ pc' = "raised"
                       /\ escaped' = row[FirstRaise(row)].exc
    /\ UNCHANGED <<config, fs, notifier_cache, results, notifiers, idx, payload, returned,
                   delivered>>
    /\ UNCHANGED <<configVars, retryVars, ivVars>>
    /\ UNCHANGED mainVars

\* run(), line 53: notifiers = self._load_notifiers()
load_notifiers ==
    /\ pc = "load_notifiers"
    /\ LET disc == discover_notifiers(notifier_cache, fs.notifiers)
           cand == select_notifiers(disc.ret, config.enabled_notifiers)
       IN /\ notifier_cache' = disc.cache
          /\ discoveries' = Append(discoveries, Discovery("notifiers", disc))
          /\ \E row \in OutcomeRows(Len(cand)) :
               /\ calls' = calls \o RowCalls("is_available", cand, row)
               /\ IF FirstRaise(row) = 0
                  THEN /\ notifiers' = filter_available(cand, row)
                       /\ pc' = "check"
                       /\ escaped' = escaped
                  ELSE /\ notifiers' = notifiers
                       /\ pc' = "raised"
                       /\ escaped' = row[FirstRaise(row)].exc
    /\ UNCHANGED <<config, fs, analyzer_cache, results, analyzers, idx, payload, returned,
                   delivered>>
    /\ UNCHANGED <<configVars, retryVars, ivVars>>
    /\ UNCHANGED mainVars

\* run(), lines 55-60: if not analyzers: return False; self.results = []
check_analyzers ==
    /\ pc = "check"
    /\ IF analyzers = <<>>
       THEN /\ returned' = "False"
            /\ pc' = "done"
            /\ UNCHANGED <<results, idx>>
       ELSE /\ results' = <<>>
            /\ idx' = 1
            /\ pc' = "execute"
            /\ returned' = returned
    /\ UNCHANGED <<config, fs, analyzer_cache, notifier_cache, analyzers, notifiers,
                   payload, escaped, calls, discoveries, delivered>>
    /\ UNCHANGED <<configVars, retryVars, ivVars>>
    /\ UNCHANGED mainVars

\* run(), lines 61-63: result = self._execute_analyzer(analyzer);
\* self.results.append(result)
execute ==
    /\ pc = "execute"
    /\ LET u == analyzers[idx] IN
       \E v \in BoolOutcomes :
       \E a \in (IF calls_analyze(v) THEN AnalyzeOutcomes(u) ELSE {NotCalled}) :
          /\ results' = Append(results, execute_analyzer(u, v, a))
          /\ calls' = calls \o <<Call("validate_config", u, OutText(v))>>
                      \o (IF a = NotCalled THEN <<>>
                          ELSE <<Call("analyze", u,
                                      IF a.kind = "raise" THEN a.exc ELSE "returned")>>)
    /\ pc' = after_execute(idx, Len(analyzers)).pc
    /\ idx' = after_execute(idx, Len(analyzers)).idx
    /\ UNCHANGED <<config, fs, analyzer_cache, notifier_cache, analyzers, notifiers,
                   payload, returned, escaped, discoveries, delivered>>
    /\ UNCHANGED <<configVars, retryVars, ivVars>>
    /\ UNCHANGED mainVars

\* run(), lines 66-67 and _send_notifications, line 173: the payload is built
notify ==
    /\ pc = "notify"
    /\ IF notifiers # <<>>
       THEN /\ payload' = build_notification_payload(results)
            /\ calls' = Append(calls, Call("build_notification_payload", None, "returned"))
            /\ idx' = 1
            /\ pc' = "send"
       ELSE /\ pc' = "summary"
            /\ UNCHANGED <<payload, calls, idx>>
    /\ UNCHANGED <<config, fs, analyzer_cache, notifier_cache, results, analyzers,
                   notifiers, returned, escaped, discoveries, delivered>>
    /\ UNCHANGED <<configVars, retryVars, ivVars>>
    /\ UNCHANGED mainVars

\* _send_notifications, lines 175-183: one turn of the loop over the notifiers
send ==
    /\ pc = "send"
    /\ \E out \in BoolOutcomes :
         LET nxt == after_send(out, idx, Len(notifiers)) IN
         /\ calls' = Append(calls, Call("send", notifiers[idx], OutText(out)))
         /\ delivered' = Append(delivered, [unit |-> notifiers[idx], payload |-> payload])
         /\ pc' = nxt.pc
         /\ idx' = nxt.idx
         /\ escaped' = nxt.escaped
    /\ UNCHANGED <<config, fs, analyzer_cache, notifier_cache, results, analyzers,
                   notifiers, payload, returned, discoveries>>
    /\ UNCHANGED <<configVars, retryVars, ivVars>>
    /\ UNCHANGED mainVars

\* run(), lines 70-77: return success_count > 0
summary ==
    /\ pc = "summary"
    /\ returned' = (IF run_result(results) THEN "True" ELSE "False")
    /\ pc' = "done"
    /\ UNCHANGED <<config, fs, analyzer_cache, notifier_cache, results, analyzers,
                   notifiers, idx, payload, escaped, calls, discoveries, delivered>>
    /\ UNCHANGED <<configVars, retryVars, ivVars>>
    /\ UNCHANGED mainVars

Next ==
    \/ load_analyzers
    \/ load_notifiers
    \/ check_analyzers
    \/ execute
    \/ notify
    \/ send
    \/ summary

Spec == Init /\ [][Next]_vars

(***************************************************************************)
(* Reading `calls`.                                                        *)
(***************************************************************************)
CallsOf(op) == SelectSeq(calls, LAMBDA c : c.op = op)

\* positions in `calls` of the validate_config() calls: the k-th one opens the
\* execution of the k-th resolved analyzer
ExecutionStarts ==
    SelectSeq([k \in 1..Len(calls) |-> k], LAMBDA k : calls[k].op = "validate_config")

Executed == Len(ExecutionStarts)

ValidateOut(k) == calls[ExecutionStarts[k]].out

\* what analyze() did in the k-th execution, "none" when it was not called
AnalyzeOut(k) ==
    LET p == ExecutionStarts[k] + 1
    IN IF p <= Len(calls) /\ calls[p].op = "analyze" THEN calls[p].out ELSE "none"

\* the outcomes of this run: none when run() returned at line 57
RunOutcomes == IF analyzers = <<>> THEN <<>> ELSE results

SomeSuccess == \E k \in 1..Len(RunOutcomes) : RunOutcomes[k].success

\* run() is past its two loading steps
Loaded == pc \in {"check", "execute", "notify", "send", "summary", "done"}

\* the exception that left run() was raised by member `op` of a unit
RaisedIn(op) == pc = "raised" /\ calls # <<>> /\ calls[Len(calls)].op = op

\* _load_analyzers has returned the empty list
ResolvedEmpty ==
    /\ analyzers = <<>>
    /\ pc \in {"load_notifiers", "check", "done"} \/ RaisedIn("is_available")

\* run() is past the loop over the analyzers
AnalyzersDone == pc \in {"notify", "send", "summary"} \/ (pc = "done" /\ analyzers # <<>>)

(***************************************************************************)
(* C1-C10: the execution engine.                                           *)
(***************************************************************************)

\* C1: when run() returns, it returns true if and only if at least one outcome
\* of the run's outcome list has success = true.
C1_ReturnsTrueIffSomeSuccess ==
    pc = "done" => (returned \in {"True", "False"} /\ (returned = "True" <=> SomeSuccess))

\* C1 witness: a run with a succeeded and a failed unit and a failed delivery
\* has returned true.
C1_Witness ==
    /\ pc = "done" /\ returned = "True"
    /\ \E k \in 1..Len(results) : ~results[k].success
    /\ \E c \in {calls[k] : k \in 1..Len(calls)} : c.op = "send" /\ c.out # "True"

\* C2: a unit whose analyze() raised has an outcome with success = false, its
\* own name and the raised exception as error; the loop goes on to every later
\* unit, no exception leaves run(), and a run with such a unit and a succeeding
\* one returns true.
C2_AnalyzeRaiseIsContained ==
    /\ \A k \in 1..Executed :
         AnalyzeOut(k) \in Exceptions =>
            /\ k <= Len(results)
            /\ ~results[k].success
            /\ results[k].error = AnalyzeOut(k)
            /\ results[k].analyzer_name = UnitName(analyzers[k])
            /\ pc # "raised"
            /\ pc = "execute" => (idx = Executed + 1 /\ idx <= Len(analyzers))
            /\ AnalyzersDone => (Executed = Len(analyzers) /\ Len(results) = Len(analyzers))
            /\ (pc = "done" /\ SomeSuccess) => returned = "True"

\* C2 witness: the first unit's analyze() raised, the second unit succeeded and
\* run() has returned.
C2_Witness ==
    /\ pc = "done" /\ Executed = 2
    /\ AnalyzeOut(1) \in Exceptions
    /\ results[2].success

\* C3 (as claimed): no exception raised by a member of a discovered unit leaves
\* run().
C3_NoExceptionEscapes == pc # "raised" /\ escaped = None

\* C4 (as claimed): once the resolved set of enabled analyzers is empty, run()
\* ends by returning false: no exception leaves it, and no validate_config(),
\* analyze(), payload or send() happens.
C4_EmptySetReturnsFalse ==
    ResolvedEmpty =>
        /\ pc # "raised"
        /\ pc = "done" => returned = "False"
        /\ \A k \in 1..Len(calls) : calls[k].op \in {"enabled", "is_available"}
        /\ payload = NoPayload

\* C5: a unit whose validate_config() returned false has a failure outcome with
\* a cause, its analyze() is never called, and the loop goes on to the next
\* unit.
C5_InvalidConfigIsFailure ==
    \A k \in 1..Executed :
        ValidateOut(k) = "False" =>
            /\ AnalyzeOut(k) = "none"
            /\ k <= Len(results)
            /\ ~results[k].success
            /\ results[k].error # None
            /\ results[k].analyzer_name = UnitName(analyzers[k])
            /\ pc # "raised"
            /\ pc = "execute" => (idx = Executed + 1 /\ idx <= Len(analyzers))
            /\ AnalyzersDone => Executed = Len(analyzers)

\* C5 witness: the first unit's validate_config() returned false and the second
\* unit's analyze() was called.
C5_Witness ==
    /\ Executed = 2
    /\ ValidateOut(1) = "False"
    /\ AnalyzeOut(2) # "none"

\* the registry entries for the configured names, in configured order, names
\* the registry does not hold left out
RECURSIVE ByName(_, _)
ByName(reg, names) ==
    IF names = <<>> THEN <<>>
    ELSE LET rest == ByName(reg, Tail(names))
             hit == {k \in 1..Len(reg) : reg[k].key = Head(names)}
         IN IF hit = {} THEN rest
            ELSE <<reg[CHOOSE k \in hit : TRUE].value>> \o rest

\* the units of cand whose enabled flag, read in order as the n-th and later
\* "enabled" calls, was true
RECURSIVE EnabledOnes(_, _)
EnabledOnes(cand, n) ==
    IF cand = <<>> THEN <<>>
    ELSE (IF CallsOf("enabled")[n].out = "True" THEN <<Head(cand)>> ELSE <<>>)
         \o EnabledOnes(Tail(cand), n + 1)

ExpectedCandidates ==
    IF Len(config.enabled_analyzers) = 0
    THEN [k \in 1..Len(analyzer_cache) |-> analyzer_cache[k].value]
    ELSE ByName(analyzer_cache, config.enabled_analyzers)

\* C6: the resolved analysis set is every discovered unit in discovery order
\* when the enabled-list is empty, else the registry entries of the configured
\* names in configured order with absent names skipped; units whose enabled
\* flag is false are then removed.
C6_ResolvedSet ==
    (Loaded \/ pc = "load_notifiers" \/ RaisedIn("is_available")) =>
        /\ Len(CallsOf("enabled")) = Len(ExpectedCandidates)
        /\ analyzers = EnabledOnes(ExpectedCandidates, 1)
        /\ (config.enabled_analyzers # <<>>
            /\ \A k \in 1..Len(config.enabled_analyzers) :
                 config.enabled_analyzers[k] \notin DictKeys(analyzer_cache))
           => analyzers = <<>>

\* C6 witness: the enabled-list names an absent unit and then a discovered one,
\* two units are discovered, and the configured one was resolved and executed.
C6_Witness ==
    /\ config.enabled_analyzers = <<"zz", "y">>
    /\ Len(analyzer_cache) = 2
    /\ analyzers = <<"a2">>
    /\ Executed = 1

\* C7 (as claimed): the outcome list holds one outcome per executed unit and
\* no two outcomes of a run have the same analyzer_name.
C7_UniqueOutcomeNames ==
    /\ Len(results) = Executed
    /\ \A j, k \in 1..Len(results) :
         j # k => results[j].analyzer_name # results[k].analyzer_name

\* the units send() was called on, in order
SentTo == [k \in 1..Len(CallsOf("send")) |-> CallsOf("send")[k].unit]

SomeSendFailed == \E k \in 1..Len(CallsOf("send")) : CallsOf("send")[k].out # "True"

\* C8: when a send() returned false or raised, send() is still called on every
\* later resolved channel, no exception leaves run(), and run() returns what
\* the outcomes alone decide.
C8_DeliveryFailureIsContained ==
    SomeSendFailed =>
        /\ pc # "raised"
        /\ pc = "send" => (idx = Len(SentTo) + 1 /\ idx <= Len(notifiers))
        /\ pc \in {"summary", "done"} => SentTo = notifiers
        /\ pc = "done" => (returned = "True" <=> SomeSuccess)

\* C8 witness: the first channel's send() raised, the second one's returned
\* false, and run() has returned true.
C8_Witness ==
    /\ pc = "done" /\ returned = "True"
    /\ Len(CallsOf("send")) = 2
    /\ CallsOf("send")[1].out \in Exceptions
    /\ CallsOf("send")[2].out = "False"
    /\ notifiers[1] # notifiers[2]

\* a configured channel name the registry does not hold, or whose channel
\* reported itself unavailable
SkippedChannel ==
    \/ /\ pc # "load_analyzers" /\ pc # "load_notifiers" /\ ~RaisedIn("enabled")
       /\ \E k \in 1..Len(config.enabled_notifiers) :
            config.enabled_notifiers[k] \notin DictKeys(notifier_cache)
    \/ \E k \in 1..Len(calls) : calls[k].op = "is_available" /\ calls[k].out = "False"

\* the channels that reported themselves available
AvailableChannels ==
    {calls[k].unit : k \in {m \in 1..Len(calls) :
        calls[m].op = "is_available" /\ calls[m].out = "True"}}

\* C9 (as claimed): with a configured channel absent or unavailable the run
\* completes normally, that channel gets no send(), and every configured
\* channel that is present and available gets a send().
C9_SkippedChannelNeverFatal ==
    SkippedChannel =>
        /\ pc # "raised"
        /\ \A k \in 1..Len(SentTo) : SentTo[k] \in AvailableChannels
        /\ pc = "done" => \A u \in AvailableChannels : \E k \in 1..Len(SentTo) : SentTo[k] = u

\* whether text holds pat as a contiguous part
Contains(text, pat) ==
    \E k \in 0..(Len(text) - Len(pat)) :
        \A m \in 1..Len(pat) : text[k + m] = pat[m]

\* C10: the payload built for a run has success_count = the number of outcomes
\* with success = true, total_count = the number of outcomes, and a message
\* that contains "<success_count>/<total_count>".
C10_PayloadCounts ==
    payload # NoPayload =>
        LET s == Len(SelectSeq(results, LAMBDA r : r.success))
            t == Len(results)
        IN /\ payload.metadata.success_count = s
           /\ payload.metadata.total_count = t
           /\ Contains(payload.message, IntToStr(s) \o <<"/">> \o IntToStr(t))

\* C10 witness: a payload was built from one succeeded and one failed outcome.
C10_Witness ==
    /\ payload # NoPayload
    /\ Len(results) = 2
    /\ results[1].success /\ ~results[2].success

\* the calls of the discovery operation of `registry` made so far
DiscoveriesOf(registry) == SelectSeq(discoveries, LAMBDA d : d.registry = registry)

(***************************************************************************)
(* C11-C20.                                                                *)
(***************************************************************************)
\* positions in `calls` where the payload was built
PayloadBuilds ==
    SelectSeq([k \in 1..Len(calls) |-> k],
              LAMBDA k : calls[k].op = "build_notification_payload")

\* how many times send() was called on channel u
DeliveriesTo(u) == Cardinality({k \in 1..Len(delivered) : delivered[k].unit = u})

\* C11 (as claimed): a run with resolved analyzers and resolved channels that
\* is past its deliveries built exactly one payload, after every outcome
\* existed, and called send() exactly once on each resolved channel with that
\* payload; a run without resolved channels builds no payload.
C11_OnePayloadOneDeliveryEach ==
    /\ (analyzers # <<>> /\ notifiers # <<>> /\ pc \in {"summary", "done"}) =>
          /\ Len(PayloadBuilds) = 1
          /\ \A k \in 1..Len(calls) :
               calls[k].op \in {"validate_config", "analyze"} => k < PayloadBuilds[1]
          /\ Len(results) = Len(analyzers)
          /\ payload = build_notification_payload(results)
          /\ \A k \in 1..Len(delivered) : delivered[k].payload = payload
          /\ \A k \in 1..Len(notifiers) : DeliveriesTo(notifiers[k]) = 1
    /\ (Loaded /\ notifiers = <<>>) =>
          (Len(PayloadBuilds) = 0 /\ payload = NoPayload /\ delivered = <<>>)

\* the channels of cand whose is_available(), called in order as the n-th and
\* later "is_available" calls, returned true
RECURSIVE AvailableOnes(_, _)
AvailableOnes(cand, n) ==
    IF cand = <<>> THEN <<>>
    ELSE (IF CallsOf("is_available")[n].out = "True" THEN <<Head(cand)>> ELSE <<>>)
         \o AvailableOnes(Tail(cand), n + 1)

\* C16: both registries are discovered before any unit is executed; the k-th
\* execution is that of the k-th resolved analyzer, and its analyze() directly
\* follows its own validate_config(); no send() happens before every resolved
\* analyzer was executed, and none is followed by an execution; send() is
\* called on the resolved channels one after the other in configured order.
C16_StrictlySequential ==
    /\ (Executed > 0 \/ delivered # <<>>) =>
          /\ Len(discoveries) = 2
          /\ discoveries[1].registry = "analyzers"
          /\ discoveries[2].registry = "notifiers"
    /\ Executed <= Len(analyzers)
    /\ \A k \in 1..Executed : calls[ExecutionStarts[k]].unit = analyzers[k]
    /\ \A p \in 1..Len(calls) :
          calls[p].op = "analyze" =>
             /\ p > 1
             /\ calls[p-1].op = "validate_config"
             /\ calls[p-1].unit = calls[p].unit
             /\ calls[p-1].out = "True"
    /\ \A p \in 1..Len(calls) :
          calls[p].op = "send" =>
             /\ Len(SelectSeq(SubSeq(calls, 1, p), LAMBDA c : c.op = "validate_config"))
                   = Len(analyzers)
             /\ \A q \in (p+1)..Len(calls) : calls[q].op = "send"
    /\ Len(SentTo) <= Len(notifiers)
    /\ \A k \in 1..Len(SentTo) : SentTo[k] = notifiers[k]
    /\ Loaded =>
          notifiers = AvailableOnes(ByName(notifier_cache, config.enabled_notifiers), 1)

\* C16 witness: a run that executed two analyzers and then delivered to two
\* channels has returned.
C16_Witness ==
    /\ pc = "done"
    /\ Executed = 2
    /\ Len(SentTo) = 2
    /\ SentTo[1] # SentTo[2]


\* the calls of `op` that failed: returned false or raised
FailedCalls(op) == SelectSeq(CallsOf(op), LAMBDA c : c.out \notin {"True", "returned"})

C22_ChannelsResolvedAfterExecution ==
    /\ (analyzers # <<>> /\ Executed < Len(analyzers)) =>
          /\ DiscoveriesOf("notifiers") = <<>>
          /\ CallsOf("is_available") = <<>>
    /\ \A p, q \in 1..Len(calls) :
          (calls[p].op = "is_available" /\ calls[q].op \in {"validate_config", "analyze"})
             => q < p

\* the sequences of seqs joined in order
RECURSIVE Flatten(_)
Flatten(seqs) == IF seqs = <<>> THEN <<>> ELSE Head(seqs) \o Flatten(Tail(seqs))

\* C28: the attachments of the payload are the artifacts of the successful
\* outcomes, joined in outcome order; no artifact of a failed outcome is among
\* them; the metadata results list has one entry per outcome, in outcome order.
C28_AttachmentsOfSuccesses ==
    payload # NoPayload =>
        LET ok == SelectSeq(results, LAMBDA r : r.success)
        IN /\ payload.attachments = Flatten([k \in 1..Len(ok) |-> ok[k].artifacts])
           /\ \A k \in 1..Len(results) :
                 ~results[k].success =>
                    \A i \in 1..Len(results[k].artifacts) :
                       \A j \in 1..Len(payload.attachments) :
                          payload.attachments[j] # results[k].artifacts[i]
           /\ Len(payload.metadata.results) = Len(results)
           /\ \A k \in 1..Len(results) :
                 /\ payload.metadata.results[k].name = results[k].analyzer_name
                 /\ payload.metadata.results[k].success = results[k].success

\* C28 witness: a payload was built from a failed outcome that carries an
\* artifact followed by a successful one, and it attaches the latter's only.
C28_Witness ==
    /\ payload # NoPayload
    /\ Len(results) = 2
    /\ ~results[1].success /\ results[1].artifacts # <<>>
    /\ results[2].success
    /\ payload.attachments = results[2].artifacts

(***************************************************************************)
(* Several calls of run() on one Orchestrator: the Orchestrator, its        *)
(* configuration and its PluginLoader (with its caches) stay, the locals of *)
(* run() are fresh in every call.  `calls` and `delivered` hold what the     *)
(* call in progress did.                                                    *)
(***************************************************************************)
\* the calls of run() started so far: each one calls discover_analyzers() once
RunsStarted == Len(DiscoveriesOf("analyzers"))

\* run() is called again once the call before has returned or raised
start_run ==
    /\ pc \in {"done", "raised"}
    /\ RunsStarted < MaxRuns
    /\ pc' = "load_analyzers"
    /\ analyzers' = <<>>
    /\ notifiers' = <<>>
    /\ idx' = 0
    /\ payload' = NoPayload
    /\ returned' = None
    /\ escaped' = None
    /\ calls' = <<>>
    /\ delivered' = <<>>
    /\ UNCHANGED <<config, fs, analyzer_cache, notifier_cache, results, discoveries>>
    /\ UNCHANGED <<mainVars, configVars, retryVars, ivVars>>

RunsNext ==
    \/ start_run
    \/ load_analyzers
    \/ load_notifiers
    \/ check_analyzers
    \/ execute
    \/ notify
    \/ send
    \/ summary

SpecRuns == Init /\ [][RunsNext]_vars

\* the call of run() in progress has ended: it returned or raised
RunEnded == pc \in {"done", "raised"}

\* results holds the outcomes of the call of run() in progress: one per
\* resolved unit, the k-th one that of the k-th execution of this call
HoldsThisRunsOutcomes ==
    /\ Executed = Len(analyzers)
    /\ Len(results) = Len(analyzers)
    /\ \A k \in 1..Len(results) :
          /\ ValidateOut(k) # "True" => ~results[k].success
          /\ AnalyzeOut(k) \in Exceptions =>
                (~results[k].success /\ results[k].error = AnalyzeOut(k))

\* what a step of a call of run() does to results: a call that resolved no
\* unit leaves it as it is; a call that resolved units empties it and then
\* appends one outcome per execution
ResultsStep ==
    /\ (pc = "check" /\ analyzers = <<>>) => results' = results
    /\ (pc = "check" /\ analyzers # <<>>) => results' = <<>>
    /\ pc = "execute" =>
          /\ Len(results') = Len(results) + 1
          /\ SubSeq(results', 1, Len(results)) = results
    /\ pc \notin {"check", "execute"} => results' = results

\* C29 (as claimed): over the calls of run() on one Orchestrator, a call that
\* resolved at least one unit ends with results holding exactly that call's
\* outcomes, and a call that resolved no unit leaves results unchanged.
C29_ResultsAcrossRuns ==
    /\ []((RunEnded /\ analyzers # <<>>) => HoldsThisRunsOutcomes)
    /\ [][ResultsStep]_vars

(***************************************************************************)
(* The PluginLoader alone: a loader just constructed (plugin_loader.py:    *)
(* 35-37) over a package directory, on which discover_analyzers() and      *)
(* discover_notifiers() are called in any order.                           *)
(***************************************************************************)
\* a class whose constructor raises: TypeError (missing arguments) or another
\* exception
FailingClass(ctor) ==
    [own |-> TRUE, has_name |-> TRUE, has_main |-> TRUE, ctor |-> ctor,
     conforms |-> FALSE, unit |-> None]

\* a class the module imported from elsewhere (obj.__module__ != module_name)
ImportedClass ==
    [own |-> FALSE, has_name |-> TRUE, has_main |-> TRUE, ctor |-> "ok",
     conforms |-> FALSE, unit |-> None]

\* a class of the module without the second member looked for (hasattr(obj,
\* "analyze") / hasattr(obj, "send") is false)
MemberlessClass ==
    [own |-> TRUE, has_name |-> TRUE, has_main |-> FALSE, ctor |-> "ok",
     conforms |-> FALSE, unit |-> None]

\* a class with both members looked for whose instance lacks another member of
\* the runtime-checkable protocol (protocols.py:52-99), so isinstance is false
NonConformingClass ==
    [own |-> TRUE, has_name |-> TRUE, has_main |-> TRUE, ctor |-> "ok",
     conforms |-> FALSE, unit |-> None]

CandidateClasses(units) ==
    {PluginClass(u) : u \in units}
    \cup {FailingClass("TypeError"), FailingClass("Error"), ImportedClass,
          MemberlessClass, NonConformingClass}

\* the units the classes of a module give, in order
UnitsOf(classes) ==
    LET c == SelectSeq(classes, LAMBDA k : k.unit # None)
    IN [k \in 1..Len(c) |-> c[k].unit]

\* the name of the k-th plugin entry
PluginName(k) == <<"plugin", IntToStr(k)>>

\* sequences over S of length n
SeqsOfLen(S, n) == [1..n -> S]

\* what the k-th plugin entry of analyzers/ may be when it holds n classes: a
\* directory with an analyzer.py that has them, or (n = 0) one without
\* analyzer.py or one whose module fails to import
AnalyzerEntries(k, n) ==
    {PluginDir(PluginName(k), cs) : cs \in SeqsOfLen(CandidateClasses(AnalyzerUnits), n)}
    \cup (IF n = 0
          THEN { [PluginDir(PluginName(k), <<>>) EXCEPT !.has_file = FALSE],
                 [PluginDir(PluginName(k), <<>>) EXCEPT !.import_ok = FALSE] }
          ELSE {})

\* what the k-th plugin file of notifiers/ may be when it holds n classes
NotifierEntries(k, n) ==
    {PluginFile(PluginName(k), cs) : cs \in SeqsOfLen(CandidateClasses(NotifierUnits), n)}
    \cup (IF n = 0
          THEN { [PluginFile(PluginName(k), <<>>) EXCEPT !.import_ok = FALSE] }
          ELSE {})

\* every construction of a class gives an instance of its own
RECURSIVE AllUnits(_)
AllUnits(entries) ==
    IF entries = <<>> THEN <<>>
    ELSE UnitsOf(Head(entries).classes) \o AllUnits(Tail(entries))

DistinctUnits(entries) ==
    LET u == AllUnits(entries)
    IN Cardinality({u[k] : k \in 1..Len(u)}) = Len(u)

\* the lists of m analyzers/ entries that hold at most c classes together
RECURSIVE AnalyzerLists(_, _)
AnalyzerLists(m, c) ==
    IF m = 0 THEN {<<>>}
    ELSE UNION { {Append(p, e) : p \in AnalyzerLists(m - 1, c - n), e \in AnalyzerEntries(m, n)} :
                 n \in 0..c }

\* the lists of m notifiers/ files that hold at most c classes together
RECURSIVE NotifierLists(_, _)
NotifierLists(m, c) ==
    IF m = 0 THEN {<<>>}
    ELSE UNION { {Append(p, e) : p \in NotifierLists(m - 1, c - n), e \in NotifierEntries(m, n)} :
                 n \in 0..c }

\* the package as the repository ships it: one analyzer plugin, two notifiers
ShippedAnalyzers == AnalyzerDirOf(<< PluginDir(<<"x">>, <<PluginClass("a1")>>) >>)

ShippedNotifiers ==
    NotifierDirOf(<< PluginFile(<<"console">>, <<PluginClass("n1")>>),
                     PluginFile(<<"telegram">>, <<PluginClass("n2")>>) >>)

\* no run() is in progress
NoConfig == [enabled_analyzers |-> <<>>, enabled_notifiers |-> <<>>]

RunIdle ==
    /\ config = NoConfig
    /\ results = <<>>
    /\ pc = "idle"
    /\ analyzers = <<>>
    /\ notifiers = <<>>
    /\ idx = 0
    /\ payload = NoPayload
    /\ returned = None
    /\ escaped = None
    /\ calls = <<>>
    /\ delivered = <<>>

LoaderInit ==
    /\ \/ fs = [analyzers |-> NoDirectory, notifiers |-> ShippedNotifiers]
       \/ fs = [analyzers |-> AnalyzerDirOf(<<>>), notifiers |-> ShippedNotifiers]
       \/ \E m \in 1..MaxPlugins, n \in 0..MaxCandidates :
            \E p \in AnalyzerLists(m - 1, MaxCandidates - n), e \in AnalyzerEntries(m, n) :
               /\ DistinctUnits(Append(p, e))
               /\ fs = [analyzers |-> AnalyzerDirOf(Append(p, e)),
                        notifiers |-> ShippedNotifiers]
       \/ fs = [analyzers |-> ShippedAnalyzers, notifiers |-> NoDirectory]
       \/ fs = [analyzers |-> ShippedAnalyzers, notifiers |-> NotifierDirOf(<<>>)]
       \/ \E m \in 1..MaxPlugins, n \in 0..MaxCandidates :
            \E p \in NotifierLists(m - 1, MaxCandidates - n), e \in NotifierEntries(m, n) :
               /\ DistinctUnits(Append(p, e))
               /\ fs = [analyzers |-> ShippedAnalyzers,
                        notifiers |-> NotifierDirOf(Append(p, e))]
    /\ analyzer_cache = <<>>
    /\ notifier_cache = <<>>
    /\ discoveries = <<>>
    /\ RunIdle
    /\ MainIdle /\ ConfigIdle /\ RetryIdle /\ IvIdle

\* a call of PluginLoader.discover_analyzers()
call_discover_analyzers ==
    /\ pc = "idle"
    /\ Len(discoveries) < MaxDiscoverCalls
    /\ LET disc == discover_analyzers(analyzer_cache, fs.analyzers)
       IN /\ analyzer_cache' = disc.cache
          /\ discoveries' = Append(discoveries, Discovery("analyzers", disc))
    /\ UNCHANGED <<config, fs, notifier_cache, results, pc, analyzers, notifiers, idx,
                   payload, returned, escaped, calls, delivered>>
    /\ UNCHANGED <<mainVars, configVars, retryVars, ivVars>>

\* a call of PluginLoader.discover_notifiers()
call_discover_notifiers ==
    /\ pc = "idle"
    /\ Len(discoveries) < MaxDiscoverCalls
    /\ LET disc == discover_notifiers(notifier_cache, fs.notifiers)
       IN /\ notifier_cache' = disc.cache
          /\ discoveries' = Append(discoveries, Discovery("notifiers", disc))
    /\ UNCHANGED <<config, fs, analyzer_cache, results, pc, analyzers, notifiers, idx,
                   payload, returned, escaped, calls, delivered>>
    /\ UNCHANGED <<mainVars, configVars, retryVars, ivVars>>

LoaderNext ==
    \/ call_discover_analyzers
    \/ call_discover_notifiers

SpecLoader == LoaderInit /\ [][LoaderNext]_vars

\* the directory a registry is discovered from
TreeOf(registry) == IF registry = "analyzers" THEN fs.analyzers ELSE fs.notifiers

\* the entries of a directory whose module the discovery operation imports
\* successfully
LoadedEntries(registry) ==
    SelectSeq(TreeOf(registry).entries, LAMBDA e :
        /\ e.import_ok
        /\ ~StartsWith(e.name, "_")
        /\ IF registry = "analyzers" THEN e.is_dir /\ e.has_file
           ELSE e.name # <<"base", ".py">>)

\* a class that is defined in its module, has the members looked for, can be
\* constructed without arguments and gives an instance of the protocol
Qualifies(c) == c.own /\ c.has_name /\ c.has_main /\ c.ctor = "ok" /\ c.conforms

\* the qualifying units of a directory, in scan order
RECURSIVE QualifyingIn(_)
QualifyingIn(entries) ==
    IF entries = <<>> THEN <<>>
    ELSE UnitsOf(SelectSeq(Head(entries).classes, Qualifies)) \o QualifyingIn(Tail(entries))

QualifyingUnits(registry) == QualifyingIn(LoadedEntries(registry))

Registries == {"analyzers", "notifiers"}

\* C12 (as claimed): every call of a discovery operation after the first one
\* on the same loader returns the mapping the first call returned and neither
\* lists the directory nor imports a module.
C12_DiscoveryIsMemoized ==
    \A r \in Registries :
        \A k \in 2..Len(DiscoveriesOf(r)) :
            /\ DiscoveriesOf(r)[k].ret = DiscoveriesOf(r)[1].ret
            /\ DiscoveriesOf(r)[k].scan = NoScan

\* C13 (as claimed): whatever candidates fail to import or to construct, every
\* qualifying unit of the directory has its name in the mapping a discovery
\* call returns.
C13_BadUnitSkippedAlone ==
    \A r \in Registries :
        \A k \in 1..Len(DiscoveriesOf(r)) :
            \A j \in 1..Len(QualifyingUnits(r)) :
                UnitName(QualifyingUnits(r)[j]) \in DictKeys(DiscoveriesOf(r)[k].ret)

\* the last unit of a sequence of units that reports name n
LastNamed(units, n) ==
    units[CHOOSE k \in 1..Len(units) :
            /\ UnitName(units[k]) = n
            /\ \A m \in (k+1)..Len(units) : UnitName(units[m]) # n]

\* the classes of a module the scan constructs: those before the first class
\* whose constructor raises an exception other than TypeError
Reached(classes) ==
    SelectSeq([k \in 1..Len(classes) |-> k],
              LAMBDA k : \A m \in 1..(k-1) :
                  ~(classes[m].own /\ classes[m].has_name /\ classes[m].has_main
                    /\ classes[m].ctor = "Error"))

\* the units a scan of the directory discovers, in scan order
RECURSIVE DiscoveredIn(_)
DiscoveredIn(entries) ==
    IF entries = <<>> THEN <<>>
    ELSE LET cs == Head(entries).classes
             ok == SelectSeq(Reached(cs), LAMBDA k : Qualifies(cs[k]))
         IN [k \in 1..Len(ok) |-> cs[ok[k]].unit] \o DiscoveredIn(Tail(entries))

DiscoveredUnits(registry) == DiscoveredIn(LoadedEntries(registry))

\* C14: the mapping a scan returns holds each name once, holds exactly the
\* names of the discovered units, and maps a name several discovered units
\* reported to the one discovered last.
C14_LaterDuplicateReplaces ==
    \A r \in Registries :
        \A k \in 1..Len(DiscoveriesOf(r)) :
            LET ret == DiscoveriesOf(r)[k].ret
            IN /\ \A i, j \in 1..Len(ret) : i # j => ret[i].key # ret[j].key
               /\ \A i \in 1..Len(ret) : UnitName(ret[i].value) = ret[i].key
               /\ DiscoveriesOf(r)[k].scan.listed =>
                     /\ DictKeys(ret) = {UnitName(DiscoveredUnits(r)[i]) :
                                            i \in 1..Len(DiscoveredUnits(r))}
                     /\ \A i \in 1..Len(ret) :
                           ret[i].value = LastNamed(DiscoveredUnits(r), ret[i].key)

\* C14 witness: two qualifying units of the analyzers directory report the
\* name x, a1 before a3, and the returned mapping holds a3 under x.
C14_Witness ==
    /\ Len(DiscoveriesOf("analyzers")) > 0
    /\ DiscoveredUnits("analyzers") = <<"a1", "a3">>
    /\ DiscoveriesOf("analyzers")[1].ret = <<[key |-> "x", value |-> "a3"]>>

\* whether the mapping holds the instance of class c under the name it reports
Registered(c, ret) ==
    /\ c.unit # None
    /\ UnitName(c.unit) \in DictKeys(ret)
    /\ DictGet(ret, UnitName(c.unit)) = c.unit

\* the classes of the modules a scan imports, in scan order
RECURSIVE ClassesIn(_)
ClassesIn(entries) ==
    IF entries = <<>> THEN <<>>
    ELSE Head(entries).classes \o ClassesIn(Tail(entries))

\* C21 (as claimed): in the mapping a scan returns, a class of a scanned module
\* is registered under its name if and only if it is defined in that module,
\* has the two members looked for and can be constructed without arguments;
\* the mapping holds nothing else, and no entry whose name starts with "_" is
\* imported.
C21_RegistryMembership ==
    \A r \in Registries :
        \A k \in 1..Len(DiscoveriesOf(r)) :
            LET d == DiscoveriesOf(r)[k]
                cs == ClassesIn(LoadedEntries(r))
            IN d.scan.listed =>
                 /\ \A i \in 1..Len(d.scan.imports) : ~StartsWith(d.scan.imports[i], "_")
                 /\ \A j \in 1..Len(cs) :
                       (cs[j].own /\ cs[j].has_name /\ cs[j].has_main /\ cs[j].ctor = "ok")
                          <=> Registered(cs[j], d.ret)
                 /\ \A i \in 1..Len(d.ret) :
                       \E j \in 1..Len(cs) : cs[j].unit = d.ret[i].value

(***************************************************************************)
(* The entry point (__main__.py): main() loads the configuration, sets up  *)
(* logging, builds the PluginLoader and the Orchestrator and runs it.      *)
(***************************************************************************)
MainInit ==
    /\ main_pc = "from_env"
    /\ main_result = NoExit
    /\ fs \in [analyzers : AnalyzerDirs, notifiers : NotifierDirs]
    /\ analyzer_cache = <<>>
    /\ notifier_cache = <<>>
    /\ discoveries = <<>>
    /\ RunIdle
    /\ ConfigIdle /\ RetryIdle /\ IvIdle

\* main(), lines 49-58: the code returned once run() returned (`ret`) or
\* raised (caught by `except Exception`)
exit_code(run_pc, ret) == IF run_pc = "done" /\ ret = "True" THEN 0 ELSE 1

\* main(), line 28: config = AppConfig.from_env(), outside the try block
main_from_env ==
    /\ main_pc = "from_env"
    /\ \/ \E c \in Configs :
            /\ config' = c
            /\ main_pc' = "setup_logging"
            /\ main_result' = main_result
       \/ \E e \in Exceptions :
            /\ config' = config
            /\ main_pc' = "raised"
            /\ main_result' = [kind |-> "raise", code |-> 1, exc |-> e]
    /\ UNCHANGED <<fs, analyzer_cache, notifier_cache, results, pc, analyzers, notifiers,
                   idx, payload, returned, escaped, calls, discoveries, delivered>>
    /\ UNCHANGED <<configVars, retryVars, ivVars>>

\* main(), lines 31-37: setup_logging(...), outside the try block
main_setup_logging ==
    /\ main_pc = "setup_logging"
    /\ \/ /\ main_pc' = "construct"
          /\ main_result' = main_result
       \/ \E e \in Exceptions :
            /\ main_pc' = "raised"
            /\ main_result' = [kind |-> "raise", code |-> 1, exc |-> e]
    /\ UNCHANGED <<runVars, configVars, retryVars, ivVars>>

\* main(), lines 41-47: PluginLoader(...), Orchestrator(config, plugin_loader)
\* and the call of run()
main_construct ==
    /\ main_pc = "construct"
    /\ analyzer_cache' = <<>>
    /\ notifier_cache' = <<>>
    /\ results' = <<>>
    /\ pc' = "load_analyzers"
    /\ main_pc' = "run"
    /\ UNCHANGED <<config, fs, analyzers, notifiers, idx, payload, returned, escaped,
                   calls, discoveries, delivered, main_result>>
    /\ UNCHANGED <<configVars, retryVars, ivVars>>

\* main(), lines 49-58: return 0 or 1
main_return ==
    /\ main_pc = "run"
    /\ pc \in {"done", "raised"}
    /\ main_result' = [kind |-> "return", code |-> exit_code(pc, returned), exc |-> None]
    /\ main_pc' = "exited"
    /\ UNCHANGED <<runVars, configVars, retryVars, ivVars>>

MainNext ==
    \/ main_from_env
    \/ main_setup_logging
    \/ main_construct
    \/ load_analyzers
    \/ load_notifiers
    \/ check_analyzers
    \/ execute
    \/ notify
    \/ send
    \/ summary
    \/ main_return

SpecMain == MainInit /\ [][MainNext]_vars

\* C15 (as claimed): main() always ends by returning 0 or 1, and it returns 0
\* if and only if some analysis unit of the run succeeded.
C15_ExitCode ==
    main_pc \in {"exited", "raised"} =>
        /\ main_result.kind = "return"
        /\ main_result.code \in {0, 1}
        /\ main_result.code = 0 <=> SomeSuccess

(***************************************************************************)
(* AppConfig.from_env (core/config.py).  A text is a sequence of tokens:   *)
(* single characters, or a word without commas and blanks.  A float is     *)
(* counted in tenths.                                                      *)
(***************************************************************************)
\* most environment variables set and YAML keys present together
MaxSettings == 2

\* AppConfig defaults
DefaultMaxRetries == 3

\* tenths in one unit
Tenths == 10

DefaultRetryDelay == 1 * Tenths
DefaultHttpTimeout == 10 * Tenths

\* os.getenv(name): the variable is unset (None) or holds a text
EnvUnset == [set |-> FALSE, value |-> <<>>]
EnvText(t) == [set |-> TRUE, value |-> t]

\* config_data.get(key, default): the key is absent or holds a value
KeyAbsent(v) == [present |-> FALSE, value |-> v]
KeyPresent(v) == [present |-> TRUE, value |-> v]

\* s.strip()
RECURSIVE LStrip(_)
LStrip(t) == IF t # <<>> /\ Head(t) = " " THEN LStrip(Tail(t)) ELSE t

RECURSIVE RStrip(_)
RStrip(t) ==
    IF t # <<>> /\ t[Len(t)] = " " THEN RStrip(SubSeq(t, 1, Len(t) - 1)) ELSE t

Strip(t) == RStrip(LStrip(t))

\* t.split(","): the parts between the commas, at least one
RECURSIVE Split(_)
Split(t) ==
    IF \A k \in 1..Len(t) : t[k] # ","
    THEN <<t>>
    ELSE LET c == CHOOSE k \in 1..Len(t) : t[k] = "," /\ \A m \in 1..(k-1) : t[m] # ","
         IN <<SubSeq(t, 1, c - 1)>> \o Split(SubSeq(t, c + 1, Len(t)))

\* [s.strip() for s in env_value.split(",") if s.strip()]
StrippedParts(t) ==
    LET parts == Split(t)
        kept == SelectSeq(parts, LAMBDA p : Strip(p) # <<>>)
    IN [k \in 1..Len(kept) |-> Strip(kept[k])]

\* _parse_list with `if env_value is not None`
parse_list_if_set(env_value, default) ==
    IF env_value.set THEN StrippedParts(env_value.value) ELSE default

\* _parse_list (config.py:151-163): `if env_value:` is false for None and ""
parse_list(env_value, default) ==
    IF env_value.set /\ env_value.value # <<>>
    THEN StrippedParts(env_value.value)
    ELSE default

IsDigit(c) == \E k \in 1..Len(Digits) : Digits[k] = c

DigitValue(c) == (CHOOSE k \in 1..Len(Digits) : Digits[k] = c) - 1

RECURSIVE DigitsValue(_)
DigitsValue(t) ==
    IF t = <<>> THEN 0
    ELSE DigitsValue(SubSeq(t, 1, Len(t) - 1)) * 10 + DigitValue(t[Len(t)])

AllDigits(t) == t # <<>> /\ \A k \in 1..Len(t) : IsDigit(t[k])

Parsed(n) == [ok |-> TRUE, value |-> n]
ValueError == [ok |-> FALSE, value |-> 0]

\* int(text): the number, or ValueError
ParseInt(t) ==
    IF AllDigits(Strip(t)) THEN Parsed(DigitsValue(Strip(t))) ELSE ValueError

\* float(text), in tenths: digits, or digits "." digit
ParseFloat(t) ==
    LET u == Strip(t) IN
    IF AllDigits(u) THEN Parsed(DigitsValue(u) * Tenths)
    ELSE IF Len(u) >= 3 /\ u[Len(u) - 1] = "." /\ IsDigit(u[Len(u)])
            /\ AllDigits(SubSeq(u, 1, Len(u) - 2))
         THEN Parsed(DigitsValue(SubSeq(u, 1, Len(u) - 2)) * Tenths + DigitValue(u[Len(u)]))
         ELSE ValueError

\* os.getenv(NAME, config_data.get(key, default)) for a text setting
text_setting(e, y, default) ==
    IF e.set THEN e.value ELSE IF y.present THEN y.value ELSE default

\* int(os.getenv(NAME, config_data.get(key, default)))
int_setting(e, y, default) ==
    IF e.set THEN ParseInt(e.value)
    ELSE IF y.present THEN Parsed(y.value) ELSE Parsed(default)

\* float(os.getenv(NAME, config_data.get(key, default)))
float_setting(e, y, default) ==
    IF e.set THEN ParseFloat(e.value)
    ELSE IF y.present THEN Parsed(y.value) ELSE Parsed(default)

\* config_data.get(key, default) for a list setting
yaml_list(y, default) == IF y.present THEN y.value ELSE default

NoAppConfig ==
    [log_level |-> <<>>, enabled_analyzers |-> <<>>, enabled_notifiers |-> <<>>,
     max_retries |-> 0, retry_delay |-> 0, http_timeout |-> 0]

NotLoaded == [kind |-> "none", value |-> NoAppConfig, exc |-> None]

\* AppConfig.from_env (config.py:92-114): the AppConfig built, or the
\* ValueError of int()/float()
from_env(e, y) ==
    LET mr == int_setting(e.MAX_RETRIES, y.max_retries, DefaultMaxRetries)
        rd == float_setting(e.RETRY_DELAY, y.retry_delay, DefaultRetryDelay)
        ht == float_setting(e.HTTP_TIMEOUT, y.http_timeout, DefaultHttpTimeout)
    IN IF mr.ok /\ rd.ok /\ ht.ok
       THEN [kind |-> "return",
             value |->
               [log_level |-> text_setting(e.LOG_LEVEL, y.log_level, <<"INFO">>),
                enabled_analyzers |->
                    parse_list(e.ENABLED_ANALYZERS, yaml_list(y.enabled_analyzers, <<>>)),
                enabled_notifiers |->
                    parse_list(e.ENABLED_NOTIFIERS,
                               yaml_list(y.enabled_notifiers, << <<"console">> >>)),
                max_retries |-> mr.value,
                retry_delay |-> rd.value,
                http_timeout |-> ht.value],
             exc |-> None]
       ELSE [kind |-> "raise", value |-> NoAppConfig, exc |-> "ValueError"]

\* the texts a list variable is set to
ListTexts ==
    { <<>>, <<"a", ",", "b">>, <<" ", "a", " ", ",", ",">>, <<",">> }

\* the texts a numeric variable is set to
IntTexts == { <<>>, <<"5">>, <<"x">> }
FloatTexts == { <<"5">>, <<"2", ".", "5">>, <<"x">> }

EnvOf(texts) == {EnvUnset} \cup {EnvText(t) : t \in texts}

KeyOf(values, default) == {KeyAbsent(default)} \cup {KeyPresent(v) : v \in values}

\* how many of the variables (keys) of a record are set (present)
CountSet(e) == Cardinality({n \in DOMAIN e : e[n].set})
CountPresent(y) == Cardinality({n \in DOMAIN y : y[n].present})

Environments ==
    { e \in [LOG_LEVEL : EnvOf({<<>>, <<"DEBUG">>}),
             ENABLED_ANALYZERS : EnvOf(ListTexts),
             ENABLED_NOTIFIERS : EnvOf(ListTexts),
             MAX_RETRIES : EnvOf(IntTexts),
             RETRY_DELAY : EnvOf(FloatTexts),
             HTTP_TIMEOUT : EnvOf(FloatTexts)] :
        CountSet(e) <= MaxSettings }

YamlConfigs ==
    { y \in [log_level : KeyOf({<<"WARNING">>}, <<>>),
             enabled_analyzers : KeyOf({<<>>, << <<"y">> >>}, <<>>),
             enabled_notifiers : KeyOf({<<>>, << <<"telegram">> >>}, <<>>),
             max_retries : KeyOf({7}, 0),
             retry_delay : KeyOf({25}, 0),
             http_timeout : KeyOf({300}, 0)] :
        CountPresent(y) <= MaxSettings }

ConfigInit ==
    /\ env \in Environments
    /\ yaml_config \in {y \in YamlConfigs : CountSet(env) + CountPresent(y) <= MaxSettings}
    /\ loaded = NotLoaded
    /\ fs = [analyzers |-> NoDirectory, notifiers |-> NoDirectory]
    /\ analyzer_cache = <<>>
    /\ notifier_cache = <<>>
    /\ discoveries = <<>>
    /\ RunIdle
    /\ MainIdle /\ RetryIdle /\ IvIdle

\* a call of AppConfig.from_env()
load_config ==
    /\ loaded = NotLoaded
    /\ loaded' = from_env(env, yaml_config)
    /\ UNCHANGED <<env, yaml_config, runVars, mainVars, retryVars, ivVars>>

ConfigNext == load_config

SpecConfig == ConfigInit /\ [][ConfigNext]_vars

\* what the claim gives a setting: the variable's value when it is set, else
\* the key's value when it is present, else the default
Precedence(e, y, envValue, default) ==
    IF e.set THEN envValue ELSE IF y.present THEN y.value ELSE default

\* C17 (as claimed): in the AppConfig from_env returns, every setting is the
\* environment variable's value when the variable is set, else the YAML value
\* when the key is present, else the default.
C17_EnvOverYamlOverDefault ==
    loaded.kind = "return" =>
        LET c == loaded.value
            e == env
            y == yaml_config
        IN /\ c.log_level = Precedence(e.LOG_LEVEL, y.log_level, e.LOG_LEVEL.value, <<"INFO">>)
           /\ c.enabled_analyzers =
                 Precedence(e.ENABLED_ANALYZERS, y.enabled_analyzers,
                            StrippedParts(e.ENABLED_ANALYZERS.value), <<>>)
           /\ c.enabled_notifiers =
                 Precedence(e.ENABLED_NOTIFIERS, y.enabled_notifiers,
                            StrippedParts(e.ENABLED_NOTIFIERS.value), << <<"console">> >>)
           /\ c.max_retries =
                 Precedence(e.MAX_RETRIES, y.max_retries,
                            ParseInt(e.MAX_RETRIES.value).value, DefaultMaxRetries)
           /\ c.retry_delay =
                 Precedence(e.RETRY_DELAY, y.retry_delay,
                            ParseFloat(e.RETRY_DELAY.value).value, DefaultRetryDelay)
           /\ c.http_timeout =
                 Precedence(e.HTTP_TIMEOUT, y.http_timeout,
                            ParseFloat(e.HTTP_TIMEOUT.value).value, DefaultHttpTimeout)

(***************************************************************************)
(* The retry decorator (utils/retry.py) and the functions it decorates     *)
(* (utils/http.py, analyzers/index_valuation/data_source.py).  One wrapper *)
(* call is followed from its first attempt to its return or raise.         *)
(***************************************************************************)
\* most attempts a retry() decorator is given
MaxAttempts == 4

\* @retry(max_attempts=3, delay=1.0, backoff=2.0, exceptions=(RequestException,))
FetchMaxAttempts == 3
FetchDelay == 1 * Tenths
FetchBackoff == 2

\* exception classes and their direct base class
BaseOf(t) ==
    CASE t \in {"ConnectionError", "Timeout", "HTTPError"} -> "RequestException"
      [] t = "DataSourceError" -> "MarketInsightsError"
      [] OTHER -> "Exception"

\* isinstance(exc, types) for an exception of class t
RECURSIVE IsInstance(_, _)
IsInstance(t, types) ==
    \/ t \in types
    \/ t # "Exception" /\ IsInstance(BaseOf(t), types)

\* requests exceptions of a request that got no response
TransportErrors == {"ConnectionError", "Timeout"}

\* what session.get(...) / raise_for_status() / response.json() give: an
\* exception of requests, or a parsed body
HttpOutcomes ==
    TransportErrors \cup {"HTTPError"}
    \cup {"not_a_dict", "code_not_200", "no_items", "row"}

FetchFunctions == {"fetch_json", "fetch_basic_info", "fetch_dividend_yield"}

\* the body of a fetch function for one HTTP outcome: every RequestException
\* is converted into DataSourceError (http.py:45-47, data_source.py:109-111,
\* :149-151)
fetch_body(func, h) ==
    IF IsInstance(h, {"RequestException"}) THEN Raises("DataSourceError")
    ELSE IF func = "fetch_json" THEN Returns("json")
    ELSE IF h = "not_a_dict" THEN Raises("DataSourceError")
    ELSE IF func = "fetch_dividend_yield" THEN Returns("did")
    ELSE IF h = "row" THEN Returns("pe_pb")
    ELSE Returns("no_pe_pb")

\* what a call of another decorated function does
FuncOutcomes ==
    {Returns("value")}
    \cup {Raises(e) : e \in {"ValueError", "KeyError", "DataSourceError", "ConnectionError"}}

\* the `delay` and `backoff` arguments of other decorated functions: no delay,
\* half a second or the default; a constant, doubling or tripling delay
Delays == {0, 5, FetchDelay}
Backoffs == {1, FetchBackoff, 3}

\* the decorated functions with their decorator's arguments
FetchWrapped(func) ==
    [func |-> func, max_attempts |-> FetchMaxAttempts, delay |-> FetchDelay,
     backoff |-> FetchBackoff, exceptions |-> {"RequestException"}]

Wrapped ==
    {FetchWrapped(f) : f \in FetchFunctions}
    \cup [func : {"func"}, max_attempts : 1..MaxAttempts, delay : Delays,
          backoff : Backoffs,
          exceptions : {{"Exception"}, {"RequestException"}, {"ValueError", "KeyError"}}]

NoOutcome == [kind |-> "none", value |-> None, exc |-> None]

RetryInit ==
    /\ wrapped \in Wrapped
    /\ attempt = 1
    /\ current_delay = wrapped.delay
    /\ func_calls = <<>>
    /\ sleeps = <<>>
    /\ wrapper_out = NoOutcome
    /\ fs = [analyzers |-> NoDirectory, notifiers |-> NoDirectory]
    /\ analyzer_cache = <<>>
    /\ notifier_cache = <<>>
    /\ discoveries = <<>>
    /\ RunIdle
    /\ MainIdle /\ ConfigIdle /\ IvIdle

\* caught with a bare `except Exception`
caught_any(exc, w) == TRUE

\* wrapper(), lines 51-59: whether the exception is caught for another attempt
caught(exc, w) == IsInstance(exc, w.exceptions)

\* wrapper_turn without `current_delay *= backoff`
wrapper_turn_constant_delay(w, n, d, out) ==
    IF out.kind = "return" \/ ~IsInstance(out.exc, w.exceptions) \/ n = w.max_attempts
    THEN [out |-> out, attempt |-> n, delay |-> d, slept |-> <<>>]
    ELSE [out |-> NoOutcome, attempt |-> n + 1, delay |-> d, slept |-> <<d>>]

\* wrapper_turn without the test of `attempt == max_attempts`
wrapper_turn_unlimited(w, n, d, out) ==
    IF out.kind = "return" \/ ~IsInstance(out.exc, w.exceptions)
    THEN [out |-> out, attempt |-> n, delay |-> d, slept |-> <<>>]
    ELSE [out |-> NoOutcome, attempt |-> n + 1, delay |-> d * w.backoff, slept |-> <<d>>]

\* wrapper(), lines 48-70: one turn of the loop, given what the call of the
\* wrapped function did (out)
wrapper_turn(w, n, d, out) ==
    IF out.kind = "return"
    THEN [out |-> out, attempt |-> n, delay |-> d, slept |-> <<>>]
    ELSE IF ~caught(out.exc, w) \/ n = w.max_attempts
    THEN [out |-> out, attempt |-> n, delay |-> d, slept |-> <<>>]
    ELSE [out |-> NoOutcome, attempt |-> n + 1, delay |-> d * w.backoff, slept |-> <<d>>]

\* one attempt of the wrapper: func(*args, **kwargs) and what follows it
wrapper_attempt ==
    /\ wrapped \in Wrapped
    /\ wrapper_out = NoOutcome
    /\ attempt <= wrapped.max_attempts
    /\ \E h \in (IF wrapped.func \in FetchFunctions THEN HttpOutcomes ELSE {"none"}) :
       \E out \in (IF wrapped.func \in FetchFunctions
                   THEN {fetch_body(wrapped.func, h)} ELSE FuncOutcomes) :
          LET t == wrapper_turn(wrapped, attempt, current_delay, out) IN
          /\ func_calls' = Append(func_calls, [http |-> h, out |-> out])
          /\ wrapper_out' = t.out
          /\ attempt' = t.attempt
          /\ current_delay' = t.delay
          /\ sleeps' = sleeps \o t.slept
    /\ UNCHANGED <<wrapped, runVars, mainVars, configVars, ivVars>>

RetryNext == wrapper_attempt

SpecRetry == RetryInit /\ [][RetryNext]_vars

\* C19 (as claimed): in a finished call of a fetch function, every attempt but
\* the third whose HTTP request failed with a transport error was followed by
\* a sleep and another attempt.
C19_TransportErrorIsRetried ==
    (wrapped.func \in FetchFunctions /\ wrapper_out # NoOutcome) =>
        \A k \in 1..Len(func_calls) :
            (func_calls[k].http \in TransportErrors /\ k < FetchMaxAttempts) =>
                (Len(func_calls) > k /\ Len(sleeps) >= k)

\* the last call of the wrapped function made so far
LastCall == func_calls[Len(func_calls)]

\* the wrapper call has returned or raised
WrapperDone == wrapper_out # NoOutcome

\* C23: the wrapped function is called at most max_attempts times by one
\* wrapper call; every call but the last raised a listed exception, so a call
\* that returns is the last one and its value is what the wrapper returns; when
\* max_attempts calls raised, the wrapper raises the exception of the last of
\* them; the wrapper has ended once max_attempts calls were made.
C23_AtMostMaxAttemptsCalls ==
    /\ Len(func_calls) <= wrapped.max_attempts
    /\ \A k \in 1..(Len(func_calls) - 1) :
          /\ func_calls[k].out.kind = "raise"
          /\ IsInstance(func_calls[k].out.exc, wrapped.exceptions)
    /\ WrapperDone => (func_calls # <<>> /\ wrapper_out = LastCall.out)
    /\ (func_calls # <<>> /\ LastCall.out.kind = "return") => wrapper_out = LastCall.out
    /\ Len(func_calls) = wrapped.max_attempts => WrapperDone
    /\ ~WrapperDone => attempt = Len(func_calls) + 1

\* C23 witness: a wrapper with max_attempts = 3 whose function raised three
\* listed exceptions, the last one different from the first, has raised the
\* last one.
C23_Witness ==
    /\ wrapped.max_attempts = 3
    /\ Len(func_calls) = 3
    /\ func_calls[1].out.exc # func_calls[3].out.exc
    /\ wrapper_out = func_calls[3].out
    /\ wrapper_out.kind = "raise"
    /\ IsInstance(wrapper_out.exc, wrapped.exceptions)

\* b to the power e
RECURSIVE Pow(_, _)
Pow(b, e) == IF e = 0 THEN 1 ELSE b * Pow(b, e - 1)

\* C24: the wrapper sleeps once after every attempt that is followed by
\* another one and never after the last attempt, and the k-th sleep lasts
\* delay * backoff^(k-1); a call that made n attempts made n - 1 sleeps.
C24_BackoffSchedule ==
    /\ Len(sleeps) = attempt - 1
    /\ WrapperDone => Len(sleeps) = Len(func_calls) - 1
    /\ \A k \in 1..Len(sleeps) : sleeps[k] = wrapped.delay * Pow(wrapped.backoff, k - 1)
    /\ current_delay = wrapped.delay * Pow(wrapped.backoff, Len(sleeps))

\* C24 witness: a wrapper with a tripling delay whose function failed four
\* times has ended after three sleeps.
C24_Witness ==
    /\ WrapperDone
    /\ wrapped.backoff = 3 /\ wrapped.delay = 5
    /\ Len(func_calls) = 4
    /\ sleeps = <<5, 15, 45>>

\* C25: a call of the wrapped function that raises an exception matching no
\* class of the exceptions tuple is the last call: the wrapper raises that
\* exception, with no sleep after the call.
C25_UnlistedExceptionPropagates ==
    \A k \in 1..Len(func_calls) :
        (func_calls[k].out.kind = "raise"
         /\ ~IsInstance(func_calls[k].out.exc, wrapped.exceptions)) =>
            /\ k = Len(func_calls)
            /\ wrapper_out = func_calls[k].out
            /\ Len(sleeps) = k - 1

\* C25 witness: with exceptions = (ValueError, KeyError) and attempts left, the
\* first call raised ConnectionError and the wrapper raised it at once.
C25_Witness ==
    /\ wrapped.exceptions = {"ValueError", "KeyError"}
    /\ wrapped.max_attempts > 1
    /\ Len(func_calls) = 1
    /\ wrapper_out = Raises("ConnectionError")
    /\ sleeps = <<>>

(***************************************************************************)
(* IndexValuationAnalyzer.analyze (analyzers/index_valuation/analyzer.py). *)
(* A float that may be None is a record: has, and the value v.  A quotient *)
(* is kept as numerator and denominator.                                   *)
(***************************************************************************)
\* most index specifications the analyzer is configured with
MaxIndices == 2

Nothing == [has |-> FALSE, v |-> 0]
Some(v) == [has |-> TRUE, v |-> v]

NoQuotient == [has |-> FALSE, num |-> 0, den |-> 1]
Quotient(n, d) == [has |-> TRUE, num |-> n, den |-> d]

\* compute_metrics (models.py:119-145): explicit_yield, implicit_yield, roe
compute_metrics(pe, pb, dividend_yield) ==
    [explicit_yield |-> dividend_yield,
     implicit_yield |-> IF ~pe.has \/ pe.v <= 0 THEN NoQuotient ELSE Quotient(100, pe.v),
     roe |-> IF ~pe.has \/ pe.v <= 0 THEN NoQuotient
             ELSE IF pb.has /\ pb.v # 0 THEN Quotient(pb.v * 100, pe.v)
             ELSE NoQuotient]

\* IndexRow (models.py:29-55), without the static columns
IndexRow(code, pe, pb, dividend_yield, m) ==
    [security_code |-> code, pe |-> pe, pb |-> pb, dividend_yield |-> dividend_yield,
     explicit_yield |-> m.explicit_yield, implicit_yield |-> m.implicit_yield,
     roe |-> m.roe]

\* the row with None values (analyzer.py:201-212)
EmptyRow(code) ==
    [security_code |-> code, pe |-> Nothing, pb |-> Nothing, dividend_yield |-> Nothing,
     explicit_yield |-> Nothing, implicit_yield |-> NoQuotient, roe |-> NoQuotient]

\* what data_source.fetch_basic_info(code) does: a dict with pe and pb, or an
\* exception
BasicInfoOutcomes ==
    {[kind |-> "return", pe |-> pe, pb |-> pb, exc |-> None] :
        pe \in {Nothing, Some(-5), Some(0), Some(10)}, pb \in {Nothing, Some(0), Some(2)}}
    \cup {[kind |-> "raise", pe |-> Nothing, pb |-> Nothing, exc |-> e] :
            e \in {"DataSourceError", "KeyError"}}

\* what data_source.fetch_dividend_yield(code) does
DividendOutcomes ==
    {[kind |-> "return", v |-> d, exc |-> None] : d \in {Nothing, Some(3)}}
    \cup {[kind |-> "raise", v |-> Nothing, exc |-> "DataSourceError"]}

DividendNotCalled == [kind |-> "none", v |-> Nothing, exc |-> None]

\* fetch_row that keeps pe and pb when only the dividend fetch raised
fetch_row_partial(code, b, d) ==
    IF b.kind = "raise" THEN EmptyRow(code)
    ELSE IF d.kind = "raise"
    THEN IndexRow(code, b.pe, b.pb, Nothing, compute_metrics(b.pe, b.pb, Nothing))
    ELSE IndexRow(code, b.pe, b.pb, d.v, compute_metrics(b.pe, b.pb, d.v))

\* _fetch_all_data, lines 164-213: the row of one index, given what the two
\* fetches did
fetch_row(code, b, d) ==
    IF b.kind = "raise" \/ d.kind = "raise" THEN EmptyRow(code)
    ELSE IndexRow(code, b.pe, b.pb, d.v, compute_metrics(b.pe, b.pb, d.v))

\* what renderer.render(rows, output_path) does
RenderOutcomes == {Returns("None"), Raises("OSError"), Raises("ValueError")}

OutputPath == <<"valuation_table.png">>

IvName == "index_valuation"

\* analyze(), line 101: sum(1 for r in rows if r.pe is not None)
valid_count(rs) == Cardinality({k \in 1..Len(rs) : rs[k].pe.has})

\* analyze_result that lets the exception of render() leave analyze()
analyze_result_uncaught(rs, r) ==
    IF r.kind = "raise"
    THEN [kind |-> "raise", value |-> NoResult, exc |-> r.exc]
    ELSE [kind |-> "return",
          value |-> AnalysisResult(IvName, TRUE, <<OutputPath>>,
                       <<"Generated valuation table for ">> \o IntToStr(valid_count(rs))
                       \o <<"/">> \o IntToStr(Len(rs)) \o <<" indices">>, None),
          exc |-> None]

\* analyze_result that reports a failure when no index has data
analyze_result_needs_data(rs, r) ==
    IF r.kind = "raise" \/ valid_count(rs) = 0
    THEN [kind |-> "return",
          value |-> AnalysisResult(IvName, FALSE, <<>>, <<"Analysis failed: ", r.exc>>, r.exc),
          exc |-> None]
    ELSE [kind |-> "return",
          value |-> AnalysisResult(IvName, TRUE, <<OutputPath>>,
                       <<"Generated valuation table for ">> \o IntToStr(valid_count(rs))
                       \o <<"/">> \o IntToStr(Len(rs)) \o <<" indices">>, None),
          exc |-> None]

\* analyze(), lines 94-125: the AnalysisResult returned once the rows exist,
\* given what render() did
analyze_result(rs, r) ==
    IF r.kind = "raise"
    THEN [kind |-> "return",
          value |-> AnalysisResult(IvName, FALSE, <<>>, <<"Analysis failed: ", r.exc>>, r.exc),
          exc |-> None]
    ELSE [kind |-> "return",
          value |-> AnalysisResult(IvName, TRUE, <<OutputPath>>,
                       <<"Generated valuation table for ">> \o IntToStr(valid_count(rs))
                       \o <<"/">> \o IntToStr(Len(rs)) \o <<" indices">>, None),
          exc |-> None]

\* one entry of `iv_calls`: the call, the exception it raised and, for a fetch
\* that returned, the values it returned
IvCall(op, code, exc, pe, pb, v) ==
    [op |-> op, code |-> code, exc |-> exc, pe |-> pe, pb |-> pb, v |-> v]

NoAnalyzeOut == [kind |-> "none", value |-> NoResult, exc |-> None]

IvInit ==
    /\ index_specs \in {[k \in 1..n |-> <<"index", IntToStr(k)>>] : n \in 0..MaxIndices}
    /\ rows = <<>>
    /\ iv_pc = "fetch"
    /\ iv_calls = <<>>
    /\ iv_out = NoAnalyzeOut
    /\ fs = [analyzers |-> NoDirectory, notifiers |-> NoDirectory]
    /\ analyzer_cache = <<>>
    /\ notifier_cache = <<>>
    /\ discoveries = <<>>
    /\ RunIdle
    /\ MainIdle /\ ConfigIdle /\ RetryIdle

\* _fetch_all_data, lines 163-213: one turn of the loop over the index
\* specifications
iv_fetch ==
    /\ iv_pc = "fetch"
    /\ Len(rows) < Len(index_specs)
    /\ LET code == index_specs[Len(rows) + 1] IN
       \E b \in BasicInfoOutcomes :
       \E d \in (IF b.kind = "return" THEN DividendOutcomes ELSE {DividendNotCalled}) :
          /\ rows' = Append(rows, fetch_row(code, b, d))
          /\ iv_calls' = iv_calls
                \o <<IvCall("fetch_basic_info", code, b.exc, b.pe, b.pb, Nothing)>>
                \o (IF d.kind = "none" THEN <<>>
                    ELSE <<IvCall("fetch_dividend_yield", code, d.exc, Nothing, Nothing, d.v)>>)
    /\ UNCHANGED <<index_specs, iv_pc, iv_out, runVars, mainVars, configVars, retryVars>>

\* analyze(), lines 94-125: render the rows and return the AnalysisResult
iv_render ==
    /\ iv_pc = "fetch"
    /\ Len(rows) = Len(index_specs)
    /\ \E r \in RenderOutcomes :
          /\ iv_calls' = Append(iv_calls, IvCall("render", <<>>, r.exc, Nothing, Nothing, Nothing))
          /\ iv_out' = analyze_result(rows, r)
    /\ iv_pc' = "done"
    /\ UNCHANGED <<index_specs, rows, runVars, mainVars, configVars, retryVars>>

IvNext ==
    \/ iv_fetch
    \/ iv_render

SpecIv == IvInit /\ [][IvNext]_vars

\* a fetch of analyze() raised
FetchFailed ==
    \E k \in 1..Len(iv_calls) :
        iv_calls[k].op \in {"fetch_basic_info", "fetch_dividend_yield"}
        /\ iv_calls[k].exc # None

\* the exceptions raised inside analyze()
RaisedInAnalyze == {iv_calls[k].exc : k \in 1..Len(iv_calls)} \ {None}

RenderFailed ==
    \E k \in 1..Len(iv_calls) : iv_calls[k].op = "render" /\ iv_calls[k].exc # None

\* the index specifications one of whose fetches raised
FailedIndices ==
    {iv_calls[k].code : k \in {m \in 1..Len(iv_calls) :
        iv_calls[m].op # "render" /\ iv_calls[m].exc # None}}

\* C18 (as claimed): analyze() returns; when a fetch or the rendering failed
\* the result is a failure under its own name with no artifacts and a caught
\* exception as error; otherwise it is a success with one artifact and no
\* error.
C18_FailureIsEncoded ==
    iv_pc = "done" =>
        /\ iv_out.kind = "return"
        /\ iv_out.value.analyzer_name = IvName
        /\ IF FetchFailed \/ RenderFailed
           THEN /\ ~iv_out.value.success
                /\ iv_out.value.artifacts = <<>>
                /\ iv_out.value.error \in RaisedInAnalyze
           ELSE /\ iv_out.value.success
                /\ Len(iv_out.value.artifacts) = 1
                /\ iv_out.value.error = None

\* C18 (amended): analyze() returns; when the rendering raised the result is a
\* failure under its own name with no artifacts and that exception as error;
\* when it did not, the result is a success with one artifact and no error,
\* whatever fetch failed: a failed fetch only makes the row of its index empty.
C18_RenderFailureIsEncoded ==
    /\ iv_out.kind # "raise"
    /\ \A k \in 1..Len(rows) :
          index_specs[k] \in FailedIndices => rows[k] = EmptyRow(index_specs[k])
    /\ iv_pc = "done" =>
          /\ iv_out.kind = "return"
          /\ iv_out.value.analyzer_name = IvName
          /\ Len(rows) = Len(index_specs)
          /\ IF RenderFailed
             THEN /\ ~iv_out.value.success
                  /\ iv_out.value.artifacts = <<>>
                  /\ iv_out.value.error = iv_calls[Len(iv_calls)].exc
             ELSE /\ iv_out.value.success
                  /\ Len(iv_out.value.artifacts) = 1
                  /\ iv_out.value.error = None

\* C18 witness: analyze() has returned a success although the fetch of one of
\* its two indices raised.
C18_Witness ==
    /\ iv_pc = "done"
    /\ Len(index_specs) = 2
    /\ Cardinality(FailedIndices) = 1
    /\ ~RenderFailed
    /\ iv_out.value.success

\* positions in `iv_calls` of the fetch_basic_info calls: the k-th one opens
\* the turn of the k-th index specification
FetchStarts ==
    SelectSeq([k \in 1..Len(iv_calls) |-> k], LAMBDA k : iv_calls[k].op = "fetch_basic_info")

BasicCallOf(k) == iv_calls[FetchStarts[k]]

\* whether fetch_dividend_yield was called in the k-th turn
DividendCalled(k) ==
    /\ FetchStarts[k] < Len(iv_calls)
    /\ iv_calls[FetchStarts[k] + 1].op = "fetch_dividend_yield"

DividendCallOf(k) == iv_calls[FetchStarts[k] + 1]

\* a fetch of the k-th turn raised
TurnFailed(k) ==
    \/ BasicCallOf(k).exc # None
    \/ DividendCalled(k) /\ DividendCallOf(k).exc # None

\* C26: _fetch_all_data appends one row per index specification in order,
\* whatever the fetches do, and analyze() goes on to render with one row per
\* specification; the row of an index one of whose fetches raised has its six
\* values None, and the row of any other index holds what its own fetches
\* returned.
C26_FetchDegrades ==
    /\ Len(rows) = Len(FetchStarts)
    /\ Len(rows) <= Len(index_specs)
    /\ (\E k \in 1..Len(iv_calls) : iv_calls[k].op = "render") =>
          (Len(rows) = Len(index_specs) /\ iv_calls[Len(iv_calls)].op = "render")
    /\ iv_out.kind # "raise"
    /\ \A k \in 1..Len(rows) :
          /\ rows[k].security_code = index_specs[k]
          /\ BasicCallOf(k).code = index_specs[k]
          /\ IF TurnFailed(k)
             THEN /\ ~rows[k].pe.has /\ ~rows[k].pb.has /\ ~rows[k].dividend_yield.has
                  /\ ~rows[k].explicit_yield.has /\ ~rows[k].implicit_yield.has
                  /\ ~rows[k].roe.has
             ELSE /\ DividendCalled(k)
                  /\ rows[k].pe = BasicCallOf(k).pe
                  /\ rows[k].pb = BasicCallOf(k).pb
                  /\ rows[k].dividend_yield = DividendCallOf(k).v

\* C26 witness: of two indices the first one's dividend fetch raised after its
\* basic-info fetch returned a pe, and the second one has its fetched pe.
C26_Witness ==
    /\ Len(rows) = 2
    /\ BasicCallOf(1).pe.has
    /\ DividendCalled(1) /\ DividendCallOf(1).exc # None
    /\ ~TurnFailed(2)
    /\ rows[2].pe = Some(10)
    /\ iv_pc = "done"

\* C27 (as claimed): for the values a turn's fetches returned, the row holds
\* explicit_yield = dividend_yield; implicit_yield = 100/pe and roe =
\* pb/pe*100 whenever pe > 0 and pb is a number, 0 included; both are None
\* exactly when pe is None or pe <= 0; roe alone is None when pb is None.
C27_ComputeMetrics ==
    \A k \in 1..Len(rows) :
        ~TurnFailed(k) =>
            LET pe == BasicCallOf(k).pe
                pb == BasicCallOf(k).pb
                m == compute_metrics(pe, pb, DividendCallOf(k).v)
            IN /\ rows[k].explicit_yield = m.explicit_yield
               /\ rows[k].implicit_yield = m.implicit_yield
               /\ rows[k].roe = m.roe
               /\ m.explicit_yield = DividendCallOf(k).v
               /\ (pe.has /\ pe.v > 0 /\ pb.has) =>
                     /\ m.implicit_yield = Quotient(100, pe.v)
                     /\ m.roe = Quotient(pb.v * 100, pe.v)
               /\ (~m.implicit_yield.has /\ ~m.roe.has) <=> (~pe.has \/ pe.v <= 0)
               /\ (pe.has /\ pe.v > 0 /\ ~pb.has) =>
                     (m.implicit_yield = Quotient(100, pe.v) /\ ~m.roe.has)

(***************************************************************************)
(* main() with the IndexValuationAnalyzer as the only resolved analyzer:   *)
(* run() is about to execute it (orchestrator.py:61), with the console     *)
(* channel resolved.                                                       *)
(***************************************************************************)
IvRunInit ==
    /\ index_specs \in {[k \in 1..n |-> <<"index", IntToStr(k)>>] : n \in 0..MaxIndices}
    /\ rows = <<>>
    /\ iv_pc = "validate"
    /\ iv_calls = <<>>
    /\ iv_out = NoAnalyzeOut
    /\ config = NoConfig
    /\ fs = [analyzers |-> NoDirectory, notifiers |-> NoDirectory]
    /\ analyzer_cache = <<[key |-> IvName, value |-> "iv"]>>
    /\ notifier_cache = <<>>
    /\ discoveries = <<>>
    /\ results = <<>>
    /\ pc = "execute"
    /\ analyzers = <<"iv">>
    /\ notifiers = <<"n1">>
    /\ idx = 1
    /\ payload = NoPayload
    /\ returned = None
    /\ escaped = None
    /\ calls = <<>>
    /\ delivered = <<>>
    /\ main_pc = "run"
    /\ main_result = NoExit
    /\ ConfigIdle /\ RetryIdle

\* IndexValuationAnalyzer.validate_config (analyzer.py:76-81), called by
\* _execute_analyzer before analyze()
iv_validate_config ==
    /\ pc = "execute"
    /\ iv_pc = "validate"
    /\ iv_pc' = IF index_specs = <<>> THEN "invalid" ELSE "fetch"
    /\ UNCHANGED <<index_specs, rows, iv_calls, iv_out, runVars, mainVars, configVars,
                   retryVars>>

\* run(), lines 61-63, for this unit: the outcome _execute_analyzer gives is
\* appended to results
iv_execute ==
    /\ pc = "execute"
    /\ iv_pc \in {"invalid", "done"}
    /\ LET v == IF iv_pc = "invalid" THEN Returns("False") ELSE Returns("True")
       IN results' = Append(results, execute_analyzer(analyzers[idx], v, iv_out))
    /\ pc' = after_execute(idx, Len(analyzers)).pc
    /\ idx' = after_execute(idx, Len(analyzers)).idx
    /\ iv_pc' = "returned"
    /\ UNCHANGED <<config, fs, analyzer_cache, notifier_cache, analyzers, notifiers,
                   payload, returned, escaped, calls, discoveries, delivered>>
    /\ UNCHANGED <<index_specs, rows, iv_calls, iv_out, mainVars, configVars, retryVars>>

IvRunNext ==
    \/ iv_validate_config
    \/ iv_fetch
    \/ iv_render
    \/ iv_execute
    \/ notify
    \/ send
    \/ summary
    \/ main_return

SpecIvRun == IvRunInit /\ [][IvRunNext]_vars

\* render() was called and returned
RenderSucceeded ==
    \E k \in 1..Len(iv_calls) : iv_calls[k].op = "render" /\ iv_calls[k].exc = None

\* C30: when render() returned, analyze() returns success = true with one
\* artifact and the summary "<rows with a pe>/<rows>", however many turns of
\* the fetch loop failed: 0/N when every one failed; the run of this unit alone
\* then returns true and main() returns 0.
C30_SuccessWheneverRenderSucceeds ==
    RenderSucceeded =>
        /\ iv_out.kind = "return"
        /\ iv_out.value.success
        /\ Len(iv_out.value.artifacts) = 1
        /\ iv_out.value.summary =
              <<"Generated valuation table for ">>
              \o IntToStr(Cardinality({k \in 1..Len(rows) : ~TurnFailed(k) /\ BasicCallOf(k).pe.has}))
              \o <<"/">> \o IntToStr(Len(index_specs)) \o <<" indices">>
        /\ (\A k \in 1..Len(rows) : TurnFailed(k)) =>
              Contains(iv_out.value.summary, <<"0", "/">> \o IntToStr(Len(index_specs)))
        /\ iv_pc = "returned" => results = <<iv_out.value>>
        /\ pc = "done" => returned = "True"
        /\ main_pc = "exited" => main_result = [kind |-> "return", code |-> 0, exc |-> None]

\* C30 witness: both fetch turns of two indices failed, render() returned,
\* and main() has returned 0 after a failed delivery.
C30_Witness ==
    /\ Len(index_specs) = 2
    /\ Len(rows) = 2
    /\ TurnFailed(1) /\ TurnFailed(2)
    /\ RenderSucceeded
    /\ iv_out.value.summary = <<"Generated valuation table for ", "0", "/", "2", " indices">>
    /\ Len(delivered) = 1
    /\ CallsOf("send")[1].out = "False"
    /\ main_pc = "exited"
    /\ main_result.code = 0
====
